---------------------------- MODULE Spec2Model ----------------------------
(***************************************************************************)
(* A model of the robomimic behavioural-cloning stack:                     *)
(*   - the algorithm factory        (robomimic/algo/bc.py)                 *)
(*   - rollout-time policy state    (robomimic/algo/bc.py)                 *)
(*   - the training step            (robomimic/algo/bc.py)                 *)
(*   - the motion-planning env      (robomimic/envs/env_mp.py)             *)
(*   - the training driver          (robomimic/scripts/train.py)           *)
(* Each component has its own variables, initial condition, next-state     *)
(* relation and specification; the variables of the components a           *)
(* specification does not exercise stay at their initial values.           *)
(***************************************************************************)
EXTENDS Integers, Sequences, FiniteSets, TLC

VARIABLES
    \* ---- algorithm factory -------------------------------------------
    algo_config,        \* the algo config handed to algo_config_to_class
    factory_pc,         \* "ready" before the call, "done" after it
    factory_out         \* what the call produced: class + kwargs, or an exception

factoryVars == <<algo_config, factory_pc, factory_out>>

VARIABLES
    \* ---- one policy (Algo instance) during rollouts --------------------
    pol_class,              \* the class of the instance
    nets_training,          \* self.nets.training
    rnn_horizon,            \* self._rnn_horizon
    rnn_is_open_loop,       \* self._rnn_is_open_loop
    rnn_hidden_state,       \* self._rnn_hidden_state (NoState is None)
    rnn_counter,            \* self._rnn_counter
    open_loop_obs,          \* self._open_loop_obs (NoObs: not set yet)
    inference_action_cache, \* self.inference_action_cache
    net_forwards,           \* forward passes of nets["policy"] so far; the n-th
                            \* pass produces the action numbered n
    last_call,              \* what the last call on the instance did
    reinit_log,             \* per returned get_action since construction or the
                            \* last reset(): did it reinitialize the hidden state
    reset_mark              \* net_forwards when reset() was last called

policyVars ==
    <<pol_class, nets_training, rnn_horizon, rnn_is_open_loop, rnn_hidden_state,
      rnn_counter, open_loop_obs, inference_action_cache, net_forwards, last_call,
      reinit_log, reset_mark>>

VARIABLES
    \* ---- one EnvMP and the dataset file it reads ----------------------
    mask_file,          \* the hdf5 file: f["mask/train"], f["mask/valid"] in file order
    env_split,          \* self.split
    env_demos,          \* self.demos (None or a list of episode names)
    env_num_envs,       \* self.num_envs
    env_num_resets,     \* self.num_resets
    env_dagger_resets,  \* self.dagger_resets
    env_ep,             \* self.ep
    env_saved,          \* self.saved_demos, saved_split, saved_num_resets (or not set)
    env_last,           \* what the last call on the env did
    env_visits,         \* the resets that loaded a demonstration since the
                        \* pool was last assigned: reset count, index, episode
    env_current_step,   \* self.current_step (no attribute before the first reset)
    env_plan,           \* len(self.plan) (no attribute before a demonstration is loaded)
    env_total_action_err,   \* self.total_action_err
    env_total_action_mse,   \* self.total_action_mse
    env_ret,            \* what the last step / is_success / relabel call returned
    env_errs,           \* the action errors added to the totals since they were zeroed
    env_pair            \* from set_to_dagger_sampling to set_to_env_original: the
                        \* attributes as the former found them, and dagger_resets
                        \* plus the demonstrations loaded since

envVars ==
    <<mask_file, env_split, env_demos, env_num_envs, env_num_resets,
      env_dagger_resets, env_ep, env_saved, env_last, env_visits,
      env_current_step, env_plan, env_total_action_err, env_total_action_mse, env_ret,
      env_errs, env_pair>>

\* the attributes written by step and by the loading branch of reset
rolloutState ==
    <<env_current_step, env_plan, env_total_action_err, env_total_action_mse, env_ret,
      env_errs>>

VARIABLES
    \* ---- one Algo instance during training ------------------------------
    ts_class,           \* the class of the instance
    ts_vae_prior,       \* algo_config.vae.prior (read by BC_VAE only)
    ts_loss,            \* algo_config.loss: the weights BC_GMM and BC_RNN_GMM test
    ts_params,          \* version of the parameters of nets["policy"]
    ts_temperature,     \* the gumbel temperature set on nets["policy"]
    ts_train_steps,     \* calls of _train_step so far
    ts_calls,           \* calls of train_on_batch so far
    ts_info,            \* the last train_on_batch call and the info it returned
    ts_prev             \* the same for the call before it

stepVars ==
    <<ts_class, ts_vae_prior, ts_loss, ts_params, ts_temperature, ts_train_steps, ts_calls,
      ts_info, ts_prev>>

VARIABLES
    \* ---- the training driver, one process per rank --------------------
    drv_config,         \* the config and the launch arguments (ddp, world_size)
    drv_pc,             \* where each rank is in train()
    drv_epoch,          \* each rank's loop variable epoch
    drv_dirs_bound,     \* are log_dir, ckpt_dir, video_dir assigned on the rank
    drv_should_save,    \* should_save_ckpt and ckpt_reason of the rank
    drv_epochs_run,     \* training epochs each rank has run
    drv_all_reduce,     \* dist.all_reduce calls each rank has entered
    drv_save_reached,   \* save_model statements each rank has reached
    drv_saves,          \* TrainUtils.save_model calls each rank has made
    drv_rollouts,       \* rollout_with_stats calls each rank has made
    drv_records,        \* phases in which each rank wrote to data_logger
    drv_handler,        \* the SIGUSR1 handler of each rank: installed, run, what it saved
    drv_res_str,        \* res_str printed by main() of each rank, once train() is over
    drv_error           \* the exception that ended train() on the rank

driverVars ==
    <<drv_config, drv_pc, drv_epoch, drv_dirs_bound, drv_should_save, drv_epochs_run,
      drv_all_reduce, drv_save_reached, drv_saves, drv_rollouts, drv_records,
      drv_handler, drv_res_str, drv_error>>

VARIABLES
    \* ---- one env_method_pass_idx request on a vectorized env -----------
    vec_kind,           \* "subproc" (SubprocVecEnvWrapper) or "dummy" (DummyVecEnvWrapper)
    vec_pc,             \* where the caller is in env_method_pass_idx
    vec_indices,        \* the indices argument
    vec_pos,            \* how many targets the current loop has handled
    vec_kwargs,         \* method_kwargs['env_idx'], one dict for the whole request
    vec_pipe,           \* per env: the messages sent to its worker, not yet read
    vec_back,           \* per env: the results its worker sent back, not yet read
    vec_calls,          \* per env: the env_idx of every call its method received
    vec_out             \* the list being returned

vecVars ==
    <<vec_kind, vec_pc, vec_indices, vec_pos, vec_kwargs, vec_pipe, vec_back,
      vec_calls, vec_out>>

VARIABLES
    \* ---- the driver's loop that hands every parallel env its shard -------
    asg_num_envs,       \* config.experiment.num_envs
    asg_masks,          \* len(f["mask/train"]), len(f["mask/valid"])
    asg_env_idx,        \* the loop variable: the next env_idx of range(num_envs)
    asg_loop,           \* split, num_split_envs, shift as the loop body last bound them
    asg_pools           \* per env handled: its split and the mask positions in self.demos

asgVars == <<asg_num_envs, asg_masks, asg_env_idx, asg_loop, asg_pools>>

VARIABLES
    \* ---- rank 0's best validation loss over the epochs ----------------------
    bv_config,          \* experiment.validate, save.enabled, save.on_best_validation
    bv_epoch,           \* epochs whose loop body got past the validation
    best_valid_loss,    \* best_valid_loss (None before the first validated Loss)
    bv_decision,        \* should_save_ckpt, ckpt_reason, epoch_ckpt_name of the epoch
    bv_losses           \* step_log["Loss"] of every validated epoch so far

bvVars == <<bv_config, bv_epoch, best_valid_loss, bv_decision, bv_losses>>

VARIABLES
    \* ---- one BalancedConcatSampler and one iteration over it ----------------
    bcs_lengths,        \* dataset_lengths
    bcs_batch_size,     \* batch_size
    bcs_pc,             \* "new", "constructed", "yielded", "exhausted", "failed"
    bcs_self,           \* num_datasets, samples_per_dataset, iterations
    bcs_adjusted,       \* adjusted_indices of the running iteration
    bcs_i,              \* i of the for loop of __iter__
    bcs_parts,          \* the slice of every dataset in the batch last yielded
    bcs_batch,          \* batch_indices last yielded
    bcs_yielded,        \* batches yielded so far
    bcs_error           \* the exception that ended the construction or iteration

bcsVars == <<bcs_lengths, bcs_batch_size, bcs_pc, bcs_self, bcs_adjusted, bcs_i,
             bcs_parts, bcs_batch, bcs_yielded, bcs_error>>

\* the helpers of train.py that are not part of one training run
toolVars == <<vecVars, asgVars, bvVars, bcsVars>>

vars == <<factoryVars, policyVars, envVars, stepVars, driverVars, toolVars>>

\* what the actions of one component leave alone
notFactory == <<policyVars, envVars, stepVars, driverVars, toolVars>>
notPolicy == <<factoryVars, envVars, stepVars, driverVars, toolVars>>
notEnv == <<factoryVars, policyVars, stepVars, driverVars, toolVars>>
notStep == <<factoryVars, policyVars, envVars, driverVars, toolVars>>
notDriver == <<factoryVars, policyVars, envVars, stepVars, toolVars>>
notVec == <<factoryVars, policyVars, envVars, stepVars, driverVars, asgVars, bvVars, bcsVars>>
notAsg == <<factoryVars, policyVars, envVars, stepVars, driverVars, vecVars, bvVars, bcsVars>>
notBv == <<factoryVars, policyVars, envVars, stepVars, driverVars, vecVars, asgVars, bcsVars>>
notBcs == <<factoryVars, policyVars, envVars, stepVars, driverVars, vecVars, asgVars, bvVars>>

-----------------------------------------------------------------------------
(***************************************************************************)
(* Algorithm factory: bc.py, algo_config_to_class                          *)
(***************************************************************************)

\* A config section that carries only "enabled".  An absent section has no
\* flags at all; its flag fields are kept FALSE so that every config has one
\* representation.
Section == {s \in [present : BOOLEAN, enabled : BOOLEAN] : s.enabled => s.present}

\* The transformer section also carries "act_enabled".
TransformerSection ==
    {s \in [present : BOOLEAN, enabled : BOOLEAN, act_enabled : BOOLEAN] :
        (s.enabled \/ s.act_enabled) => s.present}

\* rnn is read without a membership test (bc.py:49): every config of the BC
\* family carries it.
RnnSection == {s \in Section : s.present}

AlgoConfigs ==
    [gaussian : Section, gmm : Section, vae : Section, mpinets : Section,
     rnn : RnnSection, transformer : TransformerSection]

\* A value read from the config: ok = FALSE when the section is not there
\* (the attribute lookup fails).
Got(v) == [ok |-> TRUE, val |-> v]
LookupFailed == [ok |-> FALSE, val |-> FALSE]

\* "name" in algo_config
HasSection(c, name) == c[name].present

\* algo_config.<name>.<flag>
ReadFlag(c, name, flag) ==
    IF c[name].present THEN Got(c[name][flag]) ELSE LookupFailed

\* ("gaussian" in algo_config and algo_config.gaussian.enabled)
gaussian_enabled(c) ==
    IF HasSection(c, "gaussian") THEN ReadFlag(c, "gaussian", "enabled") ELSE Got(FALSE)

\* ("gmm" in algo_config and algo_config.gmm.enabled)
gmm_enabled(c) ==
    IF HasSection(c, "gmm") THEN ReadFlag(c, "gmm", "enabled") ELSE Got(FALSE)

\* ("vae" in algo_config and algo_config.vae.enabled)
vae_enabled(c) ==
    IF HasSection(c, "vae") THEN ReadFlag(c, "vae", "enabled") ELSE Got(FALSE)

\* algo_config.rnn.enabled
rnn_enabled(c) == ReadFlag(c, "rnn", "enabled")

\* ("transformer" in algo_config) and algo_config.transformer.enabled
transformer_enabled(c) ==
    IF HasSection(c, "transformer") THEN ReadFlag(c, "transformer", "enabled") ELSE Got(FALSE)

\* a plausible slip: the membership test forgotten
mpinets_enabled_unguarded(c) == ReadFlag(c, "mpinets", "enabled")

\* algo_config.mpinets.enabled if "mpinets" in algo_config else False
mpinets_enabled(c) ==
    IF HasSection(c, "mpinets") THEN ReadFlag(c, "mpinets", "enabled") ELSE Got(FALSE)

\* algo_config.transformer.act_enabled if "transformer" in algo_config else False
act_enabled(c) ==
    IF HasSection(c, "transformer") THEN ReadFlag(c, "transformer", "act_enabled") ELSE Got(FALSE)

AlgoClasses ==
    {"BC", "BC_MpiNet", "BC_Gaussian", "BC_GMM", "BC_VAE", "BC_RNN", "BC_RNN_MpiNet",
     "BC_RNN_GMM", "BC_Transformer", "BC_Transformer_GMM", "BC_ACT", "BC_ACT_GMM"}

\* return algo_class, algo_kwargs     (kwargs is always the empty dict {})
Returns(cls) == [raised |-> "none", algo_class |-> cls, algo_kwargs |-> {}]
\* raise <exc>: nothing is returned
Raises(exc) == [raised |-> exc, algo_class |-> "none", algo_kwargs |-> {}]
NotCalled == [raised |-> "none", algo_class |-> "none", algo_kwargs |-> {}]

\* a plausible slip: the gmm family tested before the gaussian family
Dispatch_gmm_first(mpinets, gaussian, gmm, vae, rnn, transformer, act) ==
    IF mpinets THEN (IF rnn THEN Returns("BC_RNN_MpiNet") ELSE Returns("BC_MpiNet"))
    ELSE IF gmm THEN
        (IF rnn THEN Returns("BC_RNN_GMM")
         ELSE IF act THEN Returns("BC_ACT_GMM")
         ELSE IF transformer THEN Returns("BC_Transformer_GMM")
         ELSE Returns("BC_GMM"))
    ELSE IF gaussian THEN
        (IF rnn THEN Raises("NotImplementedError")
         ELSE IF transformer THEN Raises("NotImplementedError")
         ELSE Returns("BC_Gaussian"))
    ELSE IF vae THEN
        (IF rnn THEN Raises("NotImplementedError")
         ELSE IF transformer THEN Raises("NotImplementedError")
         ELSE Returns("BC_VAE"))
    ELSE
        (IF rnn THEN Returns("BC_RNN")
         ELSE IF act THEN Returns("BC_ACT")
         ELSE IF transformer THEN Returns("BC_Transformer")
         ELSE Returns("BC"))

\* a plausible slip: the vae family forgets the transformer test
Dispatch_vae_transformer(mpinets, gaussian, gmm, vae, rnn, transformer, act) ==
    IF mpinets THEN (IF rnn THEN Returns("BC_RNN_MpiNet") ELSE Returns("BC_MpiNet"))
    ELSE IF gaussian THEN
        (IF rnn THEN Raises("NotImplementedError")
         ELSE IF transformer THEN Raises("NotImplementedError")
         ELSE Returns("BC_Gaussian"))
    ELSE IF gmm THEN
        (IF rnn THEN Returns("BC_RNN_GMM")
         ELSE IF act THEN Returns("BC_ACT_GMM")
         ELSE IF transformer THEN Returns("BC_Transformer_GMM")
         ELSE Returns("BC_GMM"))
    ELSE IF vae THEN
        (IF rnn THEN Raises("NotImplementedError")
         ELSE Returns("BC_VAE"))
    ELSE
        (IF rnn THEN Returns("BC_RNN")
         ELSE IF act THEN Returns("BC_ACT")
         ELSE IF transformer THEN Returns("BC_Transformer")
         ELSE Returns("BC"))

\* the if / elif chain of bc.py:57-98
Dispatch(mpinets, gaussian, gmm, vae, rnn, transformer, act) ==
    IF mpinets THEN (IF rnn THEN Returns("BC_RNN_MpiNet") ELSE Returns("BC_MpiNet"))
    ELSE IF gaussian THEN
        (IF rnn THEN Raises("NotImplementedError")
         ELSE IF transformer THEN Raises("NotImplementedError")
         ELSE Returns("BC_Gaussian"))
    ELSE IF gmm THEN
        (IF rnn THEN Returns("BC_RNN_GMM")
         ELSE IF act THEN Returns("BC_ACT_GMM")
         ELSE IF transformer THEN Returns("BC_Transformer_GMM")
         ELSE Returns("BC_GMM"))
    ELSE IF vae THEN
        (IF rnn THEN Raises("NotImplementedError")
         ELSE IF transformer THEN Raises("NotImplementedError")
         ELSE Returns("BC_VAE"))
    ELSE
        (IF rnn THEN Returns("BC_RNN")
         ELSE IF act THEN Returns("BC_ACT")
         ELSE IF transformer THEN Returns("BC_Transformer")
         ELSE Returns("BC"))

\* the whole function: the seven flag reads (bc.py:45-55), then the chain
algo_config_to_class(c) ==
    LET ga == gaussian_enabled(c)
        gm == gmm_enabled(c)
        va == vae_enabled(c)
        rn == rnn_enabled(c)
        tr == transformer_enabled(c)
        mp == mpinets_enabled(c)
        ac == act_enabled(c)
    IN  IF ~(ga.ok /\ gm.ok /\ va.ok /\ rn.ok /\ tr.ok /\ mp.ok /\ ac.ok)
        THEN Raises("AttributeError")
        ELSE Dispatch(mp.val, ga.val, gm.val, va.val, rn.val, tr.val, ac.val)

\* the sections whose "enabled" flag _create_networks of each class asserts,
\* in the order of the assert statements
ConstructionAsserts(cls) ==
    CASE cls = "BC_Gaussian" -> <<"gaussian">>
      [] cls = "BC_GMM" -> <<"gmm">>
      [] cls = "BC_RNN_GMM" -> <<"gmm", "rnn">>
      [] cls \in {"BC_Transformer", "BC_ACT"} -> <<"transformer">>
      [] cls \in {"BC_ACT_GMM", "BC_Transformer_GMM"} -> <<"gmm", "transformer">>
      [] OTHER -> <<>>

\* assert self.algo_config.<section>.enabled, for each of them
ConstructionPasses(cls, c) ==
    \A i \in 1..Len(ConstructionAsserts(cls)) :
        ReadFlag(c, ConstructionAsserts(cls)[i], "enabled") = Got(TRUE)

FactoryIdle ==
    /\ algo_config = [gaussian |-> [present |-> FALSE, enabled |-> FALSE],
                      gmm |-> [present |-> FALSE, enabled |-> FALSE],
                      vae |-> [present |-> FALSE, enabled |-> FALSE],
                      mpinets |-> [present |-> FALSE, enabled |-> FALSE],
                      rnn |-> [present |-> TRUE, enabled |-> FALSE],
                      transformer |-> [present |-> FALSE, enabled |-> FALSE,
                                       act_enabled |-> FALSE]]
    /\ factory_pc = "ready"
    /\ factory_out = NotCalled

FactoryInit ==
    /\ algo_config \in AlgoConfigs
    /\ factory_pc = "ready"
    /\ factory_out = NotCalled

\* algo_class, algo_kwargs = algo_config_to_class(algo_config)
SelectAlgo ==
    /\ factory_pc = "ready"
    /\ factory_out' = algo_config_to_class(algo_config)
    /\ factory_pc' = "done"
    /\ UNCHANGED <<algo_config, notFactory>>

FactoryNext == SelectAlgo

-----------------------------------------------------------------------------
(***************************************************************************)
(* Rollout-time policy state: bc.py, get_action / reset of each class      *)
(***************************************************************************)

MaxHorizon == 2         \* largest rnn.horizon tried
MaxObs == 2             \* observations are numbered 1..MaxObs
MaxBatch == 2           \* rollout batch sizes 1..MaxBatch

\* forward passes after which no further network call is started: enough for
\* 2H+1 recurrent steps and for two filling bursts of an action-chunking policy
MaxForwards == 2 * MaxHorizon + 1

\* self.inference_num_open_loop_steps = 4
inference_num_open_loop_steps == 4

NoState == -1           \* _rnn_hidden_state is None
NoObs == 0              \* _open_loop_obs not assigned yet
NoAction == 0           \* no action returned

Observations == 1..MaxObs
BatchSizes == 1..MaxBatch

\* class X(Y): the base each class statement names
BaseClass ==
    [c \in AlgoClasses |->
        CASE c = "BC" -> "PolicyAlgo"
          [] c \in {"BC_MpiNet", "BC_Gaussian", "BC_VAE", "BC_RNN",
                    "BC_Transformer", "BC_ACT"} -> "BC"
          [] c = "BC_GMM" -> "BC_Gaussian"
          [] c = "BC_RNN_MpiNet" -> "BC_MpiNet"
          [] c = "BC_RNN_GMM" -> "BC_RNN"
          [] c = "BC_ACT_GMM" -> "BC_ACT"
          [] c = "BC_Transformer_GMM" -> "BC_Transformer"]

\* the classes whose body defines get_action, reset, __init__ with a cache
DefinesGetAction ==
    {"BC", "BC_RNN", "BC_RNN_MpiNet", "BC_Transformer", "BC_ACT", "BC_ACT_GMM"}
DefinesReset == {"BC_RNN", "BC_RNN_MpiNet"}
\* the classes whose _create_networks sets the recurrent rollout fields
RecurrentClasses == {"BC_RNN", "BC_RNN_MpiNet", "BC_RNN_GMM"}

\* attribute lookup along the bases: the first class, from cls upwards, that
\* defines the method; "PolicyAlgo" when none of bc.py's classes does
RECURSIVE Resolve(_, _)
Resolve(cls, defining) ==
    IF cls = "PolicyAlgo" THEN "PolicyAlgo"
    ELSE IF cls \in defining THEN cls
    ELSE Resolve(BaseClass[cls], defining)

NoCall ==
    [op |-> "none", training |-> FALSE, outcome |-> "none", forwards |-> 0,
     action |-> NoAction, obs |-> NoObs, obs_used |-> NoObs, reinit |-> FALSE,
     bs |-> 0, cache_before |-> <<>>]

\* the record of a get_action call
Call(obs, bs, outcome, forwards, action, obs_used, reinit) ==
    [op |-> "get_action", training |-> nets_training, outcome |-> outcome,
     forwards |-> forwards, action |-> action, obs |-> obs, obs_used |-> obs_used,
     reinit |-> reinit, bs |-> bs, cache_before |-> inference_action_cache]

\* an assert that fails: the call raises AssertionError and changes nothing
AssertionFails(obs, bs) ==
    /\ last_call' = Call(obs, bs, "AssertionError", 0, NoAction, NoObs, FALSE)
    /\ UNCHANGED <<rnn_hidden_state, rnn_counter, open_loop_obs,
                   inference_action_cache, net_forwards, reinit_log>>

\* one forward pass of the policy network on obs, nothing kept between calls
StatelessForward(obs, bs) ==
    /\ net_forwards' = net_forwards + 1
    /\ last_call' = Call(obs, bs, "action", 1, net_forwards + 1, obs, FALSE)
    /\ UNCHANGED <<rnn_hidden_state, rnn_counter, open_loop_obs,
                   inference_action_cache, reinit_log>>

\* BC.get_action (bc.py:261-273)
BC_get_action(obs, bs) ==
    IF nets_training THEN AssertionFails(obs, bs) ELSE StatelessForward(obs, bs)

\* a plausible slip: the horizon test off by one (counter % horizon == 1)
RecurrentStep_off_by_one(obs, bs) ==
    LET reinit == rnn_hidden_state = NoState \/ rnn_counter % rnn_horizon = 1 % rnn_horizon
        state == IF reinit THEN 0 ELSE rnn_hidden_state
        remembered == IF reinit /\ rnn_is_open_loop THEN obs ELSE open_loop_obs
        obs_to_use == IF rnn_is_open_loop THEN remembered ELSE obs
    IN  /\ open_loop_obs' = remembered
        /\ rnn_counter' = rnn_counter + 1
        /\ net_forwards' = net_forwards + 1
        /\ rnn_hidden_state' = state + 1
        /\ reinit_log' = Append(reinit_log, reinit)
        /\ last_call' = Call(obs, bs, "action", 1, net_forwards + 1, obs_to_use, reinit)
        /\ UNCHANGED inference_action_cache

\* a plausible slip: the observation is remembered on every call
RecurrentStep_remember_every_call(obs, bs) ==
    LET reinit == rnn_hidden_state = NoState \/ rnn_counter % rnn_horizon = 0
        state == IF reinit THEN 0 ELSE rnn_hidden_state
        remembered == IF rnn_is_open_loop THEN obs ELSE open_loop_obs
        obs_to_use == IF rnn_is_open_loop THEN remembered ELSE obs
    IN  /\ open_loop_obs' = remembered
        /\ rnn_counter' = rnn_counter + 1
        /\ net_forwards' = net_forwards + 1
        /\ rnn_hidden_state' = state + 1
        /\ reinit_log' = Append(reinit_log, reinit)
        /\ last_call' = Call(obs, bs, "action", 1, net_forwards + 1, obs_to_use, reinit)
        /\ UNCHANGED inference_action_cache

\* the body shared by BC_RNN.get_action (bc.py:823-840) and
\* BC_RNN_MpiNet.get_action (bc.py:983-1000).  The hidden state is numbered by
\* the 'step' calls made on it since get_rnn_init_state.
RecurrentStep(obs, bs) ==
    LET reinit == rnn_hidden_state = NoState \/ rnn_counter % rnn_horizon = 0
        state == IF reinit THEN 0 ELSE rnn_hidden_state
        remembered == IF reinit /\ rnn_is_open_loop THEN obs ELSE open_loop_obs
        obs_to_use == IF rnn_is_open_loop THEN remembered ELSE obs
    IN  /\ open_loop_obs' = remembered
        /\ rnn_counter' = rnn_counter + 1
        /\ net_forwards' = net_forwards + 1
        /\ rnn_hidden_state' = state + 1
        /\ reinit_log' = Append(reinit_log, reinit)
        /\ last_call' = Call(obs, bs, "action", 1, net_forwards + 1, obs_to_use, reinit)
        /\ UNCHANGED inference_action_cache

\* BC_RNN.get_action (bc.py:810-840): the assert is commented out (bc.py:821)
BC_RNN_get_action(obs, bs) == RecurrentStep(obs, bs)

\* BC_RNN_MpiNet.get_action (bc.py:970-1000)
BC_RNN_MpiNet_get_action(obs, bs) ==
    IF nets_training THEN AssertionFails(obs, bs) ELSE RecurrentStep(obs, bs)

\* BC_Transformer.get_action (bc.py:1258-1269): the assert is commented out
BC_Transformer_get_action(obs, bs) == StatelessForward(obs, bs)

\* the actions numbered first..last, in that order
RECURSIVE Burst(_, _)
Burst(first, last) ==
    IF first > last THEN <<>> ELSE <<first>> \o Burst(first + 1, last)

\* a plausible slip: a new burst as soon as one action is left in the cache
BC_ACT_get_action_early_refill(obs, bs) ==
    IF nets_training THEN AssertionFails(obs, bs)
    ELSE IF Len(inference_action_cache) <= 1 THEN
        IF bs # 1 THEN AssertionFails(obs, bs)
        ELSE LET filled == Burst(net_forwards + 1,
                                 net_forwards + inference_num_open_loop_steps)
             IN  /\ net_forwards' = net_forwards + inference_num_open_loop_steps
                 /\ inference_action_cache' = Tail(filled)
                 /\ last_call' = Call(obs, bs, "action", inference_num_open_loop_steps,
                                      Head(filled), obs, FALSE)
                 /\ UNCHANGED <<rnn_hidden_state, rnn_counter, open_loop_obs, reinit_log>>
    ELSE /\ inference_action_cache' = Tail(inference_action_cache)
         /\ last_call' = Call(obs, bs, "action", 0, Head(inference_action_cache),
                              NoObs, FALSE)
         /\ UNCHANGED <<rnn_hidden_state, rnn_counter, open_loop_obs, net_forwards,
                        reinit_log>>

\* BC_ACT.get_action (bc.py:1385-1418)
BC_ACT_get_action(obs, bs) ==
    IF nets_training THEN AssertionFails(obs, bs)
    ELSE IF Len(inference_action_cache) = 0 THEN
        \* assert bs == 1, then one forward pass per open-loop step
        IF bs # 1 THEN AssertionFails(obs, bs)
        ELSE LET filled == Burst(net_forwards + 1,
                                 net_forwards + inference_num_open_loop_steps)
             IN  /\ net_forwards' = net_forwards + inference_num_open_loop_steps
                 /\ inference_action_cache' = Tail(filled)
                 /\ last_call' = Call(obs, bs, "action", inference_num_open_loop_steps,
                                      Head(filled), obs, FALSE)
                 /\ UNCHANGED <<rnn_hidden_state, rnn_counter, open_loop_obs, reinit_log>>
    ELSE /\ inference_action_cache' = Tail(inference_action_cache)
         /\ last_call' = Call(obs, bs, "action", 0, Head(inference_action_cache),
                              NoObs, FALSE)
         /\ UNCHANGED <<rnn_hidden_state, rnn_counter, open_loop_obs, net_forwards,
                        reinit_log>>

\* BC_ACT_GMM.get_action (bc.py:1526-1539): one pass on zero actions, first step
BC_ACT_GMM_get_action(obs, bs) ==
    IF nets_training THEN AssertionFails(obs, bs) ELSE StatelessForward(obs, bs)

\* policy.get_action(obs_dict): the method the instance's class resolves to
GetAction ==
    /\ net_forwards < MaxForwards \/ inference_action_cache # <<>>
    /\ \E obs \in Observations, bs \in BatchSizes :
         LET impl == Resolve(pol_class, DefinesGetAction)
         IN  CASE impl = "BC" -> BC_get_action(obs, bs)
               [] impl = "BC_RNN" -> BC_RNN_get_action(obs, bs)
               [] impl = "BC_RNN_MpiNet" -> BC_RNN_MpiNet_get_action(obs, bs)
               [] impl = "BC_Transformer" -> BC_Transformer_get_action(obs, bs)
               [] impl = "BC_ACT" -> BC_ACT_get_action(obs, bs)
               [] impl = "BC_ACT_GMM" -> BC_ACT_GMM_get_action(obs, bs)
    /\ UNCHANGED <<pol_class, nets_training, rnn_horizon, rnn_is_open_loop, reset_mark,
                   notPolicy>>


\* BC_RNN.reset (bc.py:842-847) and BC_RNN_MpiNet.reset (bc.py:1002-1007)
RecurrentReset ==
    /\ rnn_hidden_state' = NoState
    /\ rnn_counter' = 0

\* the reset() a class inherits when neither it nor a base in bc.py defines
\* one: the base Algo's, which knows no field of the subclass and does nothing
InheritedReset == UNCHANGED <<rnn_hidden_state, rnn_counter>>

\* policy.reset()
Reset ==
    /\ IF Resolve(pol_class, DefinesReset) = "PolicyAlgo"
       THEN InheritedReset
       ELSE RecurrentReset
    /\ last_call' = [NoCall EXCEPT !.op = "reset", !.training = nets_training,
                                   !.cache_before = inference_action_cache]
    /\ reinit_log' = <<>>
    /\ reset_mark' = net_forwards
    /\ UNCHANGED <<pol_class, nets_training, rnn_horizon, rnn_is_open_loop,
                   open_loop_obs, inference_action_cache, net_forwards, notPolicy>>

\* policy.set_eval(): self.nets.eval()
SetEval ==
    /\ nets_training
    /\ nets_training' = FALSE
    /\ UNCHANGED <<pol_class, rnn_horizon, rnn_is_open_loop, rnn_hidden_state,
                   rnn_counter, open_loop_obs, inference_action_cache, net_forwards,
                   last_call, reinit_log, reset_mark, notPolicy>>

\* policy.set_train(): self.nets.train()
SetTrain ==
    /\ ~nets_training
    /\ nets_training' = TRUE
    /\ UNCHANGED <<pol_class, rnn_horizon, rnn_is_open_loop, rnn_hidden_state,
                   rnn_counter, open_loop_obs, inference_action_cache, net_forwards,
                   last_call, reinit_log, reset_mark, notPolicy>>

\* the rollout fields as the constructors leave them: _create_networks of the
\* recurrent classes (bc.py:773-776, 867-870, 1035-1038), BC_ACT.__init__
\* (bc.py:1275-1279); a freshly built torch module is in training mode
PolicyConstructed ==
    /\ nets_training = TRUE
    /\ rnn_hidden_state = NoState
    /\ rnn_counter = 0
    /\ open_loop_obs = NoObs
    /\ inference_action_cache = <<>>
    /\ net_forwards = 0
    /\ last_call = NoCall
    /\ reinit_log = <<>>
    /\ reset_mark = 0

PolicyIdle ==
    /\ pol_class = "BC"
    /\ rnn_horizon = 1
    /\ rnn_is_open_loop = FALSE
    /\ PolicyConstructed

\* rnn.horizon and rnn.open_loop are read by the recurrent classes only
PolicyInit ==
    /\ pol_class \in AlgoClasses
    /\ IF pol_class \in RecurrentClasses
       THEN rnn_horizon \in 1..MaxHorizon /\ rnn_is_open_loop \in BOOLEAN
       ELSE rnn_horizon = 1 /\ rnn_is_open_loop = FALSE
    /\ PolicyConstructed

PolicyNext == GetAction \/ Reset \/ SetEval \/ SetTrain

-----------------------------------------------------------------------------
(***************************************************************************)
(* The motion-planning environment: env_mp.py, EnvMP                       *)
(***************************************************************************)

MaxDemos == 3       \* episodes in one mask of the file
MaxResets == 4      \* resets of one env, both modes together
MaxNumEnvs == 2     \* the shard modulus handed to the env

\* episode names are "demo_<decimal id>", kept as sequences of characters
Prefix == <<"d", "e", "m", "o", "_">>
DemoNames ==
    {Prefix \o <<"1">>, Prefix \o <<"2">>, Prefix \o <<"3">>, Prefix \o <<"1", "0">>}

DigitValue(ch) ==
    CASE ch = "0" -> 0 [] ch = "1" -> 1 [] ch = "2" -> 2 [] ch = "3" -> 3
      [] ch = "4" -> 4 [] ch = "5" -> 5 [] ch = "6" -> 6 [] ch = "7" -> 7
      [] ch = "8" -> 8 [] ch = "9" -> 9

\* int(digits)
RECURSIVE ParseInt(_)
ParseInt(digits) ==
    IF digits = <<>> THEN 0
    ELSE 10 * ParseInt(SubSeq(digits, 1, Len(digits) - 1)) + DigitValue(digits[Len(digits)])

\* int(elem[5:])
EpisodeId(elem) == ParseInt(SubSeq(elem, 6, Len(elem)))

\* a mask of the file: distinct episode names in any order
Masks ==
    {m \in UNION {[1..n -> DemoNames] : n \in 1..MaxDemos} :
        \A i, j \in 1..Len(m) : i # j => m[i] # m[j]}

\* the train and valid masks of one file share no episode
MaskFiles ==
    {f \in [train : Masks, valid : Masks] :
        \A i \in 1..Len(f.train), j \in 1..Len(f.valid) : f.train[i] # f.valid[j]}

\* np.argsort([int(elem[5:]) for elem in demos]), as 0-based positions
RECURSIVE ArgSortFrom(_, _)
ArgSortFrom(ids, left) ==
    IF left = {} THEN <<>>
    ELSE LET i == CHOOSE a \in left : \A b \in left : ids[a + 1] <= ids[b + 1]
         IN  <<i>> \o ArgSortFrom(ids, left \ {i})
ArgSort(demos) ==
    LET ids == [k \in 1..Len(demos) |-> EpisodeId(demos[k])]
    IN  ArgSortFrom(ids, 0..(Len(demos) - 1))

\* [demos[i] for i in inds if keep(i)]
RECURSIVE Pick(_, _, _, _)
Pick(demos, inds, num_envs, env_idx) ==
    IF inds = <<>> THEN <<>>
    ELSE (IF Head(inds) % num_envs = env_idx THEN <<demos[Head(inds) + 1]>> ELSE <<>>)
            \o Pick(demos, Tail(inds), num_envs, env_idx)

\* range(len(demos))
RECURSIVE Range(_)
Range(n) == IF n = 0 THEN <<>> ELSE Range(n - 1) \o <<n - 1>>

\* Python None and a value that is set
None == [none |-> TRUE, val |-> <<>>]
Some(v) == [none |-> FALSE, val |-> v]

NoEnvCall == [op |-> "none", outcome |-> "none", idx |-> -1]

\* nothing returned by step, is_success or relabel_traj_with_mp yet
NoReturn == [op |-> "none"]

MaxPlan == 2        \* demonstrations have 1..MaxPlan actions

\* len(f["data/<ep>/actions"]): the file holds one plan per episode
PlanLength(ep) == 1 + (EpisodeId(ep) % MaxPlan)

\* the call changes the pool (or may): the window of visits starts again
\* no set_to_dagger_sampling ... set_to_env_original pair is being followed
NoPair ==
    [phase |-> "none", demos |-> None, split |-> "None", num_resets |-> 0,
     dagger_resets |-> 0]

PoolAssigned == env_visits' = <<>>

\* set_env_specific_params(split, num_envs, shift, use_env_idx, env_idx)
set_env_specific_params(split, num_envs, shift, use_env_idx, env_idx) ==
    LET demos == mask_file[split]
        inds == ArgSort(demos)
        sorted == Pick(demos, inds, 1, 0)
        idx == IF split = "valid"
               THEN (IF num_envs = 1 THEN 0 ELSE env_idx - shift)
               ELSE env_idx
    IN  /\ env_split' = split
        /\ env_demos' = IF use_env_idx
                        THEN Some(Pick(demos, Range(Len(demos)), num_envs, idx))
                        ELSE Some(sorted)
        /\ env_num_envs' = num_envs
        /\ env_last' = [NoEnvCall EXCEPT !.op = "set_env_specific_params", !.outcome = "ok"]
        /\ PoolAssigned
        /\ env_pair' = NoPair
        /\ UNCHANGED <<mask_file, env_num_resets, env_dagger_resets, env_ep, env_saved>>
        /\ UNCHANGED rolloutState

\* a plausible slip: the counter incremented before it is used
LoadIndex_after_increment == (env_num_resets + 1) % Len(env_demos.val)

\* idx = self.num_resets % len(self.demos)
LoadIndex == env_num_resets % Len(env_demos.val)

\* reset(): the demonstration branch, the branch of self.initial_states
\* (always None: nothing assigns it) and the random reset; current_step is
\* set to 0 before the branch is taken
reset ==
    /\ env_current_step' = Some(0)
    /\ env_ret' = NoReturn
    /\ IF ~env_demos.none
       THEN IF Len(env_demos.val) = 0
            THEN /\ env_last' = [NoEnvCall EXCEPT !.op = "reset",
                                                  !.outcome = "ZeroDivisionError"]
                 /\ UNCHANGED <<mask_file, env_split, env_demos, env_num_envs,
                                env_num_resets, env_dagger_resets, env_ep, env_saved, env_pair,
                                env_visits, env_plan, env_total_action_err,
                                env_total_action_mse, env_errs>>
            ELSE LET idx == LoadIndex
                     ep == env_demos.val[idx + 1]
                 IN  /\ env_plan' = Some(PlanLength(ep))
                     /\ env_total_action_err' = 0
                     /\ env_total_action_mse' = 0
                     /\ env_errs' = <<>>
                     /\ env_num_resets' = env_num_resets + 1
                     /\ env_ep' = ep
                     /\ env_last' = [op |-> "reset", outcome |-> "demo", idx |-> idx]
                     /\ env_visits' = Append(env_visits,
                                             [k |-> env_num_resets, idx |-> idx, ep |-> ep])
                     /\ env_pair' = IF env_pair.phase = "open"
                                    THEN [env_pair EXCEPT !.dagger_resets = @ + 1]
                                    ELSE NoPair
                     /\ UNCHANGED <<mask_file, env_split, env_demos, env_num_envs,
                                    env_dagger_resets, env_saved>>
       ELSE /\ env_last' = [NoEnvCall EXCEPT !.op = "reset", !.outcome = "random"]
            /\ UNCHANGED <<mask_file, env_split, env_demos, env_num_envs, env_num_resets,
                           env_dagger_resets, env_ep, env_saved, env_pair, env_visits, env_plan,
                           env_total_action_err, env_total_action_mse, env_errs>>

NotSaved == [set |-> FALSE, demos |-> None, split |-> "None", num_resets |-> 0]

\* set_to_dagger_sampling(num_envs, env_idx)
set_to_dagger_sampling(num_envs, env_idx) ==
    LET demos == mask_file["train"]
        inds == ArgSort(demos)
    IN  /\ env_saved' = [set |-> TRUE, demos |-> env_demos, split |-> env_split,
                         num_resets |-> env_num_resets]
        /\ env_pair' = [phase |-> "open", demos |-> env_demos, split |-> env_split,
                        num_resets |-> env_num_resets,
                        dagger_resets |-> env_dagger_resets]
        /\ env_num_resets' = env_dagger_resets
        /\ env_demos' = Some(Pick(demos, inds, num_envs, env_idx))
        /\ env_split' = "train"
        /\ env_last' = [NoEnvCall EXCEPT !.op = "set_to_dagger_sampling", !.outcome = "ok"]
        /\ PoolAssigned
        /\ UNCHANGED <<mask_file, env_num_envs, env_dagger_resets, env_ep>>
        /\ UNCHANGED rolloutState

\* a plausible slip: the DAgger count is not written back
set_to_env_original_count_lost ==
    IF env_saved.set
    THEN /\ env_demos' = env_saved.demos
         /\ env_split' = env_saved.split
         /\ env_num_resets' = env_saved.num_resets
         /\ env_pair' = IF env_pair.phase = "open"
                        THEN [env_pair EXCEPT !.phase = "restored"]
                        ELSE NoPair
         /\ env_last' = [NoEnvCall EXCEPT !.op = "set_to_env_original", !.outcome = "ok"]
         /\ PoolAssigned
         /\ UNCHANGED <<mask_file, env_num_envs, env_ep, env_saved, env_dagger_resets>>
         /\ UNCHANGED rolloutState
    ELSE /\ env_last' = [NoEnvCall EXCEPT !.op = "set_to_env_original",
                                          !.outcome = "AttributeError"]
         /\ UNCHANGED <<mask_file, env_split, env_demos, env_num_envs, env_num_resets,
                        env_dagger_resets, env_ep, env_saved, env_pair, env_visits>>
         /\ UNCHANGED rolloutState

\* set_to_env_original(): without an earlier set_to_dagger_sampling the
\* saved attributes do not exist and the first read fails
set_to_env_original ==
    IF env_saved.set
    THEN /\ env_demos' = env_saved.demos
         /\ env_split' = env_saved.split
         /\ env_dagger_resets' = env_num_resets
         /\ env_num_resets' = env_saved.num_resets
         /\ env_pair' = IF env_pair.phase = "open"
                        THEN [env_pair EXCEPT !.phase = "restored"]
                        ELSE NoPair
         /\ env_last' = [NoEnvCall EXCEPT !.op = "set_to_env_original", !.outcome = "ok"]
         /\ PoolAssigned
         /\ UNCHANGED <<mask_file, env_num_envs, env_ep, env_saved>>
         /\ UNCHANGED rolloutState
    ELSE /\ env_last' = [NoEnvCall EXCEPT !.op = "set_to_env_original",
                                          !.outcome = "AttributeError"]
         /\ UNCHANGED <<mask_file, env_split, env_demos, env_num_envs, env_num_resets,
                        env_dagger_resets, env_ep, env_saved, env_pair, env_visits>>
         /\ UNCHANGED rolloutState

\* ---- step ----------------------------------------------------------------

MaxErr == 1         \* |action - plan[current_step]| is 0..MaxErr
MaxSteps == 3       \* steps taken after one reset

\* keys of the info dict of self.env.step, and the dicts it may return:
\* every entry is a flag, 0.0 or 1.0
NativeKeys == {"collision", "success"}
NativeInfos == [NativeKeys -> {0, 1}]
ErrKeys == {"action_err", "action_mse"}
SplitNames == {"train", "valid"}

\* a float: v, and total / n kept as the pair it is computed from
Num(v) == <<v, 1>>
Ratio(total, n) == <<total, n>>

\* '{}/{}'.format(split, k), and the key k itself
SplitKey(split, k) == <<split, k>>
BareKey(k) == <<k>>

\* a.update(b)
Updated(a, b) ==
    [key \in (DOMAIN a) \cup (DOMAIN b) |-> IF key \in DOMAIN b THEN b[key] ELSE a[key]]

\* a plausible slip: only the keys of the env's own split are filled in
new_info_own_split_only(native) ==
    [key \in {SplitKey(env_split, k) : k \in NativeKeys}
                \cup {BareKey(k) : k \in NativeKeys} |->
        IF Len(key) = 2 THEN Some(Num(native[key[2]]))
        ELSE (IF env_split = "None" THEN Some(Num(native[key[1]])) ELSE None)]

\* the dummy (None) values for all splits (env_mp.py:163-175)
new_info(native) ==
    [key \in {SplitKey(split, k) : split \in SplitNames, k \in NativeKeys}
                \cup {BareKey(k) : k \in NativeKeys} |->
        IF Len(key) = 2
        THEN (IF key[1] = env_split THEN Some(Num(native[key[2]])) ELSE None)
        ELSE (IF env_split = "None" THEN Some(Num(native[key[1]])) ELSE None)]

\* ep.split('_')[-1]
RECURSIVE LastField(_)
LastField(name) ==
    IF \A i \in 1..Len(name) : name[i] # "_" THEN name ELSE LastField(Tail(name))

\* int(text) of a decimal with an optional sign
SignedInt(text) ==
    IF text # <<>> /\ Head(text) = "-" THEN 0 - ParseInt(Tail(text)) ELSE ParseInt(text)

\* the action error of one step: norm and mean square of a one-dimensional
\* difference diff
ActionErr(diff) == diff
ActionMse(diff) == diff * diff

\* a plausible slip: the step after the plan's last still counted
WithinPlan_one_more == env_current_step.val <= env_plan.val

\* the running means while the plan lasts, the final means after it
WithinPlan == env_current_step.val < env_plan.val
ReportedErr(diff) ==
    IF WithinPlan THEN Ratio(env_total_action_err + ActionErr(diff), env_current_step.val + 1)
    ELSE Ratio(env_total_action_err, env_plan.val)
ReportedMse(diff) ==
    IF WithinPlan THEN Ratio(env_total_action_mse + ActionMse(diff), env_current_step.val + 1)
    ELSE Ratio(env_total_action_mse, env_plan.val)

\* info when a pool is loaded (env_mp.py:177-196)
PoolInfo(diff, native) ==
    [key \in {SplitKey(env_split, k) : k \in NativeKeys}
                \cup {SplitKey(split, e) : split \in SplitNames \cup {env_split},
                                             e \in ErrKeys} |->
        IF key[2] \in NativeKeys THEN Some(Num(native[key[2]]))
        ELSE IF key[1] # env_split THEN None
        ELSE IF key[2] = "action_err" THEN Some(ReportedErr(diff))
        ELSE Some(ReportedMse(diff))]

\* info when no pool is loaded (env_mp.py:197-200)
NoPoolInfo(native) ==
    [key \in {BareKey(k) : k \in NativeKeys}
                \cup {SplitKey(split, e) : split \in SplitNames, e \in ErrKeys} |->
        IF Len(key) = 1 THEN Some(Num(native[key[1]])) ELSE None]

\* info['ep'] = int(self.ep.split('_')[-1])
EpInfo == [key \in {BareKey("ep")} |-> Some(Num(SignedInt(LastField(env_ep))))]

StepInfo(diff, native) ==
    Updated(Updated(new_info(native),
                    IF env_demos.none THEN NoPoolInfo(native) ELSE PoolInfo(diff, native)),
            EpInfo)

\* an attribute read before reset created it: current_step before any
\* reset, plan and the totals before a demonstration was loaded
StepAttributeError ==
    \/ env_current_step.none
    \/ ~env_demos.none /\ env_plan.none

\* step(action): native is the simulator's info, diff the distance of the
\* action from the plan's action of this step
EnvMP_step(diff, native) ==
    IF StepAttributeError
    THEN /\ env_last' = [NoEnvCall EXCEPT !.op = "step", !.outcome = "AttributeError"]
         /\ env_ret' = NoReturn
         /\ UNCHANGED <<mask_file, env_split, env_demos, env_num_envs, env_num_resets,
                        env_dagger_resets, env_ep, env_saved, env_pair, env_visits,
                        env_current_step, env_plan, env_total_action_err,
                        env_total_action_mse, env_errs>>
    ELSE /\ env_errs' = IF ~env_demos.none /\ WithinPlan
                        THEN Append(env_errs, diff) ELSE env_errs
         /\ env_total_action_err' =
                IF ~env_demos.none /\ WithinPlan
                THEN env_total_action_err + ActionErr(diff) ELSE env_total_action_err
         /\ env_total_action_mse' =
                IF ~env_demos.none /\ WithinPlan
                THEN env_total_action_mse + ActionMse(diff) ELSE env_total_action_mse
         /\ env_current_step' = Some(env_current_step.val + 1)
         /\ env_ret' = [op |-> "step", info |-> StepInfo(diff, native), native |-> native]
         /\ env_last' = [NoEnvCall EXCEPT !.op = "step", !.outcome = "ok"]
         /\ UNCHANGED <<mask_file, env_split, env_demos, env_num_envs, env_num_resets,
                        env_dagger_resets, env_ep, env_saved, env_pair, env_visits, env_plan>>

\* ---- is_success ----------------------------------------------------------

\* a plausible slip: the None entry of the loop over the splits left out
is_success_split_keys_only(success) ==
    IF env_num_envs > 1
    THEN [key \in SplitNames |-> IF key = env_split THEN Some(success) ELSE None]
    ELSE [key \in {"task"} |-> Some(success)]

\* is_success(): the loop runs over "train", "valid" and None, and the key
\* of None is 'task'
is_success(success) ==
    IF env_num_envs > 1
    THEN [key \in SplitNames \cup {"task"} |->
             IF (IF key = "task" THEN "None" ELSE key) = env_split
             THEN Some(success) ELSE None]
    ELSE [key \in {"task"} |-> Some(success)]

\* ---- relabel_traj_with_mp ------------------------------------------------

MaxTraj == 2        \* steps of one recorded trajectory
MaxTrajs == 2       \* trajectories handed to one call

\* what replanning from one recorded state does: a plan within bounds, an
\* exception, no plan, a plan with an action outside [-1, 1]
ReplanOutcomes == {"ok", "raise", "none", "oob"}
TrajSteps == [replan : ReplanOutcomes, collision : BOOLEAN]
Trajs == UNION {[1..n -> TrajSteps] : n \in 1..MaxTraj}

EmptyDict == [keys |-> {}]

\* a plausible slip: the collision flag tested before the replanned action
\* is appended
RECURSIVE RelabelLoop_collision_first(_, _, _)
RelabelLoop_collision_first(traj, step, actions) ==
    IF step = Len(traj) THEN actions
    ELSE IF traj[step + 1].replan # "ok" THEN actions
    ELSE IF traj[step + 1].collision THEN actions
    ELSE RelabelLoop_collision_first(traj, step + 1, Append(actions, step))

\* the loop over the recorded states (env_mp.py:319-353); the action kept
\* for a step is named by the step it was replanned from
RECURSIVE RelabelLoop(_, _, _)
RelabelLoop(traj, step, actions) ==
    IF step = Len(traj) THEN actions
    ELSE IF traj[step + 1].replan # "ok" THEN actions
    ELSE IF traj[step + 1].collision THEN Append(actions, step)
    ELSE RelabelLoop(traj, step + 1, Append(actions, step))

\* relabel_traj_with_mp(trajs, env_idx): obs of the trajectory are its
\* recorded steps 0..len-1, states keeps the first planning state only
relabel_traj_with_mp(trajs, env_idx) ==
    IF env_idx >= Len(trajs) THEN EmptyDict
    ELSE LET traj == trajs[env_idx + 1]
             actions == RelabelLoop(traj, 0, <<>>)
         IN  IF Len(actions) = 0 THEN EmptyDict
             ELSE [keys |-> {"actions", "obs", "states", "num_samples"},
                   actions |-> actions,
                   obs |-> SubSeq(Range(Len(traj)), 1, Len(actions)),
                   states |-> SubSeq(actions, 1, 1),
                   num_samples |-> Len(actions)]

\* calls made on the env so far are bounded through the counters they move
EnvBudget == env_num_resets + env_dagger_resets < MaxResets

\* the driver configures an env once, right after it has built it
Configure ==
    /\ env_demos.none
    /\ env_last.op = "none"
    /\ \E split \in {"train", "valid"}, num_envs \in 1..MaxNumEnvs, shift \in 0..1,
          use_env_idx \in BOOLEAN, env_idx \in 0..MaxNumEnvs :
            set_env_specific_params(split, num_envs, shift, use_env_idx, env_idx)
    /\ UNCHANGED notEnv

EnvReset ==
    /\ EnvBudget
    /\ env_last.outcome \notin {"ZeroDivisionError", "random"}
    /\ reset
    /\ UNCHANGED notEnv

DaggerSampling ==
    /\ EnvBudget
    /\ env_last.op = "reset"
    /\ \E num_envs \in 1..MaxNumEnvs, env_idx \in 0..(MaxNumEnvs - 1) :
            set_to_dagger_sampling(num_envs, env_idx)
    /\ UNCHANGED notEnv

EnvStep ==
    /\ IF env_current_step.none THEN TRUE ELSE env_current_step.val < MaxSteps
    /\ \E diff \in 0..MaxErr, native \in NativeInfos : EnvMP_step(diff, native)
    /\ UNCHANGED notEnv

\* the queries of one behaviour are bounded: the result of a query does not
\* depend on the queries made before it
QueryBudget == env_ret = NoReturn

\* is_success() with the simulator reporting success (1.0) or not (0.0)
IsSuccess ==
    /\ QueryBudget
    /\ \E success \in 0..1 :
          env_ret' = [op |-> "is_success", dict |-> is_success(success),
                      success |-> success]
    /\ env_last' = [NoEnvCall EXCEPT !.op = "is_success", !.outcome = "ok"]
    /\ UNCHANGED <<mask_file, env_split, env_demos, env_num_envs, env_num_resets,
                   env_dagger_resets, env_ep, env_saved, env_pair, env_visits, env_current_step,
                   env_plan, env_total_action_err, env_total_action_mse, env_errs>>
    /\ UNCHANGED notEnv

\* relabel_traj_with_mp on an env whose dataset file is open
Relabel ==
    /\ QueryBudget
    /\ ~env_demos.none
    /\ \E n \in 1..MaxTrajs, env_idx \in 0..MaxTrajs, traj \in Trajs :
          env_ret' = [op |-> "relabel", out |-> relabel_traj_with_mp([i \in 1..n |-> traj], env_idx),
                      traj |-> traj, num_trajs |-> n, env_idx |-> env_idx]
    /\ env_last' = [NoEnvCall EXCEPT !.op = "relabel_traj_with_mp", !.outcome = "ok"]
    /\ UNCHANGED <<mask_file, env_split, env_demos, env_num_envs, env_num_resets,
                   env_dagger_resets, env_ep, env_saved, env_pair, env_visits, env_current_step,
                   env_plan, env_total_action_err, env_total_action_mse, env_errs>>
    /\ UNCHANGED notEnv

EnvOriginal ==
    /\ EnvBudget
    /\ env_last.op \in {"reset", "set_to_dagger_sampling"}
    /\ set_to_env_original
    /\ UNCHANGED notEnv

\* __init__ (env_mp.py:107-113)
EnvConstructed ==
    /\ env_split = "None"
    /\ env_demos = None
    /\ env_num_envs = 1
    /\ env_num_resets = 0
    /\ env_dagger_resets = 0
    /\ env_ep = Prefix \o <<"-", "1">>
    /\ env_saved = NotSaved
    /\ env_pair = NoPair
    /\ env_last = NoEnvCall
    /\ env_visits = <<>>
    /\ env_current_step = None
    /\ env_plan = None
    /\ env_total_action_err = 0
    /\ env_total_action_mse = 0
    /\ env_ret = NoReturn
    /\ env_errs = <<>>

EnvIdle ==
    /\ mask_file = [train |-> <<Prefix \o <<"1">>>>, valid |-> <<Prefix \o <<"2">>>>]
    /\ EnvConstructed

EnvInit ==
    /\ mask_file \in MaskFiles
    /\ EnvConstructed

\* the files whose masks hold at most MaxRolloutDemos episodes
MaxRolloutDemos == 1
RolloutMasks ==
    {m \in UNION {[1..n -> DemoNames] : n \in 1..MaxRolloutDemos} :
        \A i, j \in 1..Len(m) : i # j => m[i] # m[j]}
RolloutInit ==
    /\ mask_file \in {f \in [train : RolloutMasks, valid : RolloutMasks] :
            \A i \in 1..Len(f.train), j \in 1..Len(f.valid) : f.train[i] # f.valid[j]}
    /\ EnvConstructed

EnvNext == Configure \/ EnvReset \/ DaggerSampling \/ EnvOriginal

\* an env that is configured and queried
QueryNext == Configure \/ IsSuccess \/ Relabel

\* an env that is configured, reset and stepped; a rollout study resets the
\* env at most MaxRolloutResets times
MaxRolloutResets == 2
RolloutReset ==
    /\ env_num_resets + env_dagger_resets < MaxRolloutResets
    /\ EnvReset

\* a rollout study configures its env as the only env of its split: the
\* whole mask of the split is its pool
RolloutConfigure ==
    /\ env_demos.none
    /\ env_last.op = "none"
    /\ \E split \in {"train", "valid"}, use_env_idx \in BOOLEAN :
            set_env_specific_params(split, 1, 0, use_env_idx, 0)
    /\ UNCHANGED notEnv

RolloutNext == RolloutConfigure \/ RolloutReset \/ EnvStep

-----------------------------------------------------------------------------
(***************************************************************************)
(* The training step: bc.py, train_on_batch and what it calls              *)
(***************************************************************************)

MaxBatches == 2       \* different batches handed to train_on_batch
MaxEpoch == 2         \* epochs 0..MaxEpoch
MaxNoise == 1         \* outcomes 0..MaxNoise of one draw from a distribution
MaxTrainCalls == 3    \* calls of train_on_batch on one instance
MaxRank == 2          \* len(dists.batch_shape) is 1..MaxRank

Batches == 1..MaxBatches
Epochs == 0..MaxEpoch
Noise == 0..MaxNoise
BatchRanks == 1..MaxRank

\* tensors are kept as the inputs they are a function of
Absent == <<>>

DefinesForwardTraining ==
    {"BC", "BC_Gaussian", "BC_GMM", "BC_VAE", "BC_RNN_GMM", "BC_Transformer", "BC_ACT",
     "BC_ACT_GMM", "BC_Transformer_GMM"}
DefinesComputeLosses ==
    {"BC", "BC_MpiNet", "BC_Gaussian", "BC_GMM", "BC_VAE", "BC_RNN_MpiNet", "BC_RNN_GMM",
     "BC_ACT", "BC_ACT_GMM", "BC_Transformer_GMM"}
DefinesTrainOnBatch == {"BC", "BC_VAE"}

\* the output of nets["policy"] for a batch: a function of the parameters,
\* the batch and the temperature
NetOutput(batch) == <<ts_params, batch, ts_temperature'>>

\* _forward_training of BC, BC_Transformer and BC_ACT: the actions are the
\* network output
ForwardPlain(batch, noise) ==
    [keys |-> {"actions"}, actions |-> NetOutput(batch), log_probs |-> Absent]

\* _forward_training of BC_Gaussian, BC_GMM, BC_RNN_GMM and BC_ACT_GMM:
\* log_probs of the targets and actions drawn by dists.sample(); BC_GMM and
\* BC_RNN_GMM add further entries, computed or zeros, whatever the weights
ForwardSampled(batch, noise, more) ==
    [keys |-> {"log_probs", "actions"} \cup more,
     actions |-> NetOutput(batch) \o <<noise>>,
     log_probs |-> NetOutput(batch)]

\* _forward_training of BC_Transformer_GMM: log_probs only
ForwardLogProbs(batch, noise) ==
    [keys |-> {"log_probs"}, actions |-> Absent, log_probs |-> NetOutput(batch)]

\* _forward_training of BC_VAE: what the network's 'train' pass returns
ForwardVAE(batch, noise) ==
    [keys |-> {"actions", "kl_loss", "reconstruction_loss", "encoder_z"}
                \cup (IF ts_vae_prior.use_categorical THEN {} ELSE {"encoder_variance"}),
     actions |-> NetOutput(batch), log_probs |-> Absent]

_forward_training(batch, noise) ==
    LET def == Resolve(ts_class, DefinesForwardTraining)
    IN  CASE def \in {"BC", "BC_Transformer", "BC_ACT"} -> ForwardPlain(batch, noise)
          [] def \in {"BC_Gaussian", "BC_ACT_GMM"} -> ForwardSampled(batch, noise, {})
          [] def = "BC_GMM" ->
                ForwardSampled(batch, noise, {"exponential_precision_loss"})
          [] def = "BC_RNN_GMM" ->
                ForwardSampled(batch, noise, {"exponential_precision_loss",
                                              "collision_loss", "sdf_collision_rate"})
          [] def = "BC_Transformer_GMM" -> ForwardLogProbs(batch, noise)
          [] def = "BC_VAE" -> ForwardVAE(batch, noise)

\* the values the assert of each _forward_training definition compares
\* len(dists.batch_shape) with, in the order the definitions appear in the
\* class body; the definitions without such an assert have none
BatchShapeAsserts(def) ==
    CASE def = "BC_Gaussian" -> <<1>>
      [] def = "BC_GMM" -> <<2, 1>>
      [] def \in {"BC_RNN_GMM", "BC_ACT_GMM", "BC_Transformer_GMM"} -> <<2>>
      [] OTHER -> <<>>

\* a plausible slip: the first of two definitions in a class body is the
\* one that is called
EffectiveAssert_first_definition(def) ==
    LET asserts == BatchShapeAsserts(def)
    IN  IF asserts = <<>> THEN <<>> ELSE <<asserts[1]>>

\* a class body binds the name to the definition that comes last
EffectiveAssert(def) ==
    LET asserts == BatchShapeAsserts(def)
    IN  IF asserts = <<>> THEN <<>> ELSE <<asserts[Len(asserts)]>>

\* assert len(dists.batch_shape) == n, the statement after the network call
ForwardAssertFails(rank) ==
    LET expected == EffectiveAssert(Resolve(ts_class, DefinesForwardTraining))
    IN  expected # <<>> /\ rank # expected[1]

DiagnosticKeys == {"l2_loss", "l1_loss", "cos_loss"}

\* the entries BC_GMM and BC_RNN_GMM add to the losses for a weight above 0
ExponentialPrecisionKeys ==
    IF ts_loss.exponential_precision_weight > 0 THEN {"exponential_precision_loss"} ELSE {}
CollisionKeys ==
    IF ts_loss.collision_weight > 0 THEN {"collision_loss", "sdf_collision_rate"} ELSE {}

\* _compute_losses: the keys of the dict, the loss that is optimized and
\* the distance of predictions["actions"] to the targets (l2, l1, cos)
_compute_losses(predictions, batch) ==
    LET def == Resolve(ts_class, DefinesComputeLosses)
    IN  CASE def \in {"BC", "BC_ACT"} ->
                [keys |-> DiagnosticKeys \cup {"action_loss"},
                 action_loss |-> predictions.actions,
                 l2_loss |-> predictions.actions]
          [] def \in {"BC_MpiNet", "BC_RNN_MpiNet"} ->
                [keys |-> DiagnosticKeys
                            \cup {"collision_loss", "point_match_loss", "action_loss"},
                 action_loss |-> predictions.actions,
                 l2_loss |-> predictions.actions]
          [] def = "BC_Gaussian" ->
                [keys |-> DiagnosticKeys \cup {"log_probs", "action_loss"},
                 action_loss |-> predictions.log_probs,
                 l2_loss |-> predictions.actions]
          [] def = "BC_GMM" ->
                [keys |-> DiagnosticKeys \cup {"log_probs", "action_loss"}
                            \cup ExponentialPrecisionKeys,
                 action_loss |-> predictions.log_probs,
                 l2_loss |-> predictions.actions]
          [] def = "BC_RNN_GMM" ->
                [keys |-> DiagnosticKeys \cup {"log_probs", "action_loss"}
                            \cup CollisionKeys \cup ExponentialPrecisionKeys,
                 action_loss |-> predictions.log_probs,
                 l2_loss |-> predictions.actions]
          [] def = "BC_ACT_GMM" ->
                [keys |-> {"log_probs", "action_loss", "l2_loss", "l1_loss"},
                 action_loss |-> predictions.log_probs,
                 l2_loss |-> predictions.actions]
          [] def = "BC_Transformer_GMM" ->
                [keys |-> {"log_probs", "action_loss"},
                 action_loss |-> predictions.log_probs,
                 l2_loss |-> Absent]
          [] def = "BC_VAE" ->
                [keys |-> {"recons_loss", "kl_loss", "action_loss"},
                 action_loss |-> predictions.actions,
                 l2_loss |-> Absent]

Max(a, b) == IF a >= b THEN a ELSE b

\* a plausible slip: the floor is not applied
AnnealedTemperature_no_floor(epoch) ==
    ts_vae_prior.categorical_init_temp
        - epoch * ts_vae_prior.categorical_temp_anneal_step

\* BC_VAE.train_on_batch before it calls the superclass: the temperature
AnnealedTemperature(epoch) ==
    Max(ts_vae_prior.categorical_init_temp
            - epoch * ts_vae_prior.categorical_temp_anneal_step,
        ts_vae_prior.categorical_min_temp)

SetTemperature(epoch) ==
    IF Resolve(ts_class, DefinesTrainOnBatch) = "BC_VAE" /\ ts_vae_prior.use_categorical
    THEN ts_temperature' = AnnealedTemperature(epoch)
    ELSE ts_temperature' = ts_temperature

NoInfo ==
    [called |-> FALSE, outcome |-> "none", rank |-> 0,
     batch |-> 0, epoch |-> 0, validate |-> FALSE, keys |-> {}, predictions |-> {},
     losses |-> [keys |-> {}, action_loss |-> Absent, l2_loss |-> Absent],
     backprop_loss |-> Absent, params_before |-> 0, steps_before |-> 0]

\* if not validate:
TakesStep(validate) == ~validate

\* BC.train_on_batch; _train_step backpropagates losses["action_loss"],
\* steps the optimizer (the parameters change) and returns the grad norms.
\* An assert that fails in _forward_training ends the call there.
train_on_batch(batch, epoch, validate, noise, rank) ==
    /\ SetTemperature(epoch)
    /\ IF ForwardAssertFails(rank)
       THEN /\ ts_info' = [NoInfo EXCEPT !.called = TRUE, !.outcome = "AssertionError",
                                         !.rank = rank, !.batch = batch, !.epoch = epoch,
                                         !.validate = validate,
                                         !.params_before = ts_params,
                                         !.steps_before = ts_train_steps]
            /\ UNCHANGED <<ts_train_steps, ts_params>>
       ELSE LET predictions == _forward_training(batch, noise)
                losses == _compute_losses(predictions, batch)
                step == TakesStep(validate)
            IN  /\ ts_info' =
                     [called |-> TRUE, outcome |-> "returned", rank |-> rank,
                      batch |-> batch, epoch |-> epoch, validate |-> validate,
                      keys |-> {"predictions", "losses"}
                                 \cup (IF step THEN {"policy_grad_norms"} ELSE {}),
                      predictions |-> predictions.keys, losses |-> losses,
                      backprop_loss |-> IF step THEN losses.action_loss ELSE Absent,
                      params_before |-> ts_params, steps_before |-> ts_train_steps]
                /\ ts_train_steps' = IF step THEN ts_train_steps + 1 ELSE ts_train_steps
                /\ ts_params' = IF step THEN ts_params + 1 ELSE ts_params
    /\ ts_prev' = ts_info
    /\ ts_calls' = ts_calls + 1
    /\ UNCHANGED <<ts_class, ts_vae_prior, ts_loss>>

TrainOnBatch ==
    /\ ts_calls < MaxTrainCalls
    /\ \E batch \in Batches, epoch \in Epochs, validate \in BOOLEAN, noise \in Noise,
          rank \in BatchRanks :
            train_on_batch(batch, epoch, validate, noise, rank)
    /\ UNCHANGED notStep

VaePriors ==
    [use_categorical : BOOLEAN, categorical_init_temp : {2},
     categorical_temp_anneal_step : {1}, categorical_min_temp : {1}]

\* loss.exponential_precision_weight and loss.collision_weight, as whole
\* numbers: the code tests them against 0 and scales a loss with them
MaxWeight == 1
NoWeights == [exponential_precision_weight |-> 0, collision_weight |-> 0]
LossWeights ==
    [exponential_precision_weight : 0..MaxWeight, collision_weight : 0..MaxWeight]

StepConstructed ==
    /\ ts_params = 0
    /\ ts_temperature = 0
    /\ ts_train_steps = 0
    /\ ts_calls = 0
    /\ ts_info = NoInfo
    /\ ts_prev = NoInfo

StepIdlePrior ==
    [use_categorical |-> FALSE, categorical_init_temp |-> 2,
     categorical_temp_anneal_step |-> 1, categorical_min_temp |-> 1]

StepIdle ==
    /\ ts_class = "BC"
    /\ ts_vae_prior = StepIdlePrior
    /\ ts_loss = NoWeights
    /\ StepConstructed

StepInit ==
    /\ ts_class \in AlgoClasses
    /\ ts_vae_prior \in VaePriors
    /\ ts_class # "BC_VAE" => ~ts_vae_prior.use_categorical
    /\ ts_loss \in LossWeights
    /\ StepConstructed

StepNext == TrainOnBatch

\* train_on_batch on one batch, whatever rank the distribution has
ForwardPass ==
    /\ ts_calls < MaxTrainCalls
    /\ \E validate \in BOOLEAN, rank \in BatchRanks :
            train_on_batch(1, 0, validate, 0, rank)
    /\ UNCHANGED notStep

ForwardNext == ForwardPass

\* the temperatures of a categorical prior, in tenths; the anneal step may
\* be negative
MaxTemp == 2
MaxAnnealStep == 1
AnnealPriors ==
    [use_categorical : BOOLEAN, categorical_init_temp : 1..MaxTemp,
     categorical_temp_anneal_step : (-1)..MaxAnnealStep,
     categorical_min_temp : 1..MaxTemp]

\* a BC or BC_VAE instance as constructed, the VAE with any prior
AnnealInit ==
    /\ ts_class \in {"BC", "BC_VAE"}
    /\ ts_vae_prior \in AnnealPriors
    /\ ts_class # "BC_VAE" => ts_vae_prior = StepIdlePrior
    /\ ts_loss = NoWeights
    /\ StepConstructed

\* train_on_batch on one batch, in any epoch
AnnealStep ==
    /\ ts_calls < MaxTrainCalls
    /\ \E epoch \in Epochs, validate \in BOOLEAN :
            train_on_batch(1, epoch, validate, 0, 1)
    /\ UNCHANGED notStep

AnnealNext == AnnealStep

-----------------------------------------------------------------------------
(***************************************************************************)
(* The training driver: train.py, train() run by main() on every rank      *)
(***************************************************************************)

MaxRanks == 2         \* processes of one run
MaxNumEpochs == 2     \* config.train.num_epochs
MaxRate == 2          \* save.every_n_epochs and rollout.rate
MaxSignals == 1       \* SIGUSR1 signals one process receives

AllRanks == 0..(MaxRanks - 1)
Ranks == 0..(drv_config.world_size - 1)

\* save.every_n_epochs is None (train.py:436 allows for it)
NotSet == 0

\* more than one process only under ddp; rollout.rate is read for the
\* rollouts only, and stands at 1 in a config without them
DriverConfigs ==
    {c \in [ddp : BOOLEAN, world_size : 1..MaxRanks, num_epochs : 1..MaxNumEpochs,
            validate : BOOLEAN, save_enabled : BOOLEAN,
            every_n_epochs : {NotSet} \cup 1..MaxRate,
            rollout_enabled : BOOLEAN, rollout_rate : 1..MaxRate,
            terminal_output_to_txt : BOOLEAN] :
        /\ c.world_size > 1 => c.ddp
        /\ ~c.rollout_enabled => c.rollout_rate = 1}

\* epoch_ckpt_name, and whether a file of that name was written
NoCkpt == [written |-> FALSE, epoch |-> 0, best_validation |-> FALSE]

\* the checkpoint decisions of one epoch on a rank: should_save_ckpt and
\* ckpt_reason, the save conditions that fired, the writes of
\* model_latest.pth, the checkpoint of the epoch, and whether the loop body ended
NoSave ==
    [should_save_ckpt |-> FALSE, ckpt_reason |-> "None", fired |-> {}, latest |-> 0,
     ckpt |-> NoCkpt, ended |-> FALSE]

\* the handler before signal.signal installs it, and main before it prints
NoHandler ==
    [installed |-> FALSE, ran |-> FALSE, saved |-> FALSE, epoch |-> 0, at |-> "none",
     epochs_run |-> 0, signals |-> 0]
NoStatus == [status |-> "none", error |-> "none"]

Fails(r, exc) ==
    /\ drv_pc' = [drv_pc EXCEPT ![r] = "failed"]
    /\ drv_error' = [drv_error EXCEPT ![r] = exc]

Goes(r, pc) ==
    /\ drv_pc' = [drv_pc EXCEPT ![r] = pc]
    /\ UNCHANGED drv_error

Counts(counter, r, n) == [counter EXCEPT ![r] = @ + n]

\* train.py:152-180: the directories are assigned on rank 0 only; the
\* terminal log is opened in log_dir on every rank
SetupRank(r) ==
    /\ drv_pc[r] = "start"
    /\ drv_dirs_bound' = [drv_dirs_bound EXCEPT ![r] = (r = 0)]
    /\ drv_epoch' = [drv_epoch EXCEPT ![r] = 1]
    /\ IF drv_config.terminal_output_to_txt /\ r # 0
       THEN Fails(r, "UnboundLocalError") /\ UNCHANGED drv_handler
       ELSE /\ Goes(r, "train")
            /\ drv_handler' = [drv_handler EXCEPT ![r].installed = TRUE]
    /\ UNCHANGED <<drv_config, drv_should_save, drv_epochs_run, drv_all_reduce,
                   drv_save_reached, drv_saves, drv_rollouts, drv_records>>

\* train.py:418-428: run_epoch on the training loader
TrainEpochRank(r) ==
    /\ drv_pc[r] = "train"
    /\ drv_epochs_run' = Counts(drv_epochs_run, r, 1)
    /\ Goes(r, IF r = 0 THEN "checks" ELSE "log_train")
    /\ UNCHANGED <<drv_config, drv_epoch, drv_dirs_bound, drv_should_save, drv_all_reduce,
                   drv_save_reached, drv_saves, drv_rollouts, drv_records>>

\* epoch_check of train.py:436-437
EpochCheck(r) ==
    /\ drv_config.every_n_epochs # NotSet
    /\ drv_epoch[r] > 0
    /\ drv_epoch[r] % drv_config.every_n_epochs = 0

\* should_save_ckpt = (time_check or epoch_check or epoch_list_check)
ShouldSave(time_check, epoch_check, epoch_list_check) ==
    time_check \/ epoch_check \/ epoch_list_check

\* train.py:432: should_save_ckpt = False; the decisions of the new epoch
\* start from nothing, ckpt_reason still holds the value of the last epoch
ResetCheckRank(r) ==
    /\ drv_pc[r] = "checks"
    /\ drv_should_save' = [drv_should_save EXCEPT ![r] =
            [NoSave EXCEPT !.ckpt_reason = drv_should_save[r].ckpt_reason]]
    /\ Goes(r, "recurring")
    /\ UNCHANGED <<drv_config, drv_epoch, drv_dirs_bound, drv_epochs_run, drv_all_reduce,
                   drv_save_reached, drv_saves, drv_rollouts, drv_records>>

\* train.py:433-439: the recurring save conditions, read when saving is enabled
RecurringChecks(r, time_check, epoch_list_check) ==
    LET fired == (IF time_check THEN {"time"} ELSE {})
                    \cup (IF EpochCheck(r) THEN {"epoch"} ELSE {})
                    \cup (IF epoch_list_check THEN {"list"} ELSE {})
    IN  IF drv_config.save_enabled
        THEN [drv_should_save[r] EXCEPT
                !.should_save_ckpt = ShouldSave(time_check, EpochCheck(r), epoch_list_check),
                !.fired = fired]
        ELSE drv_should_save[r]

RecurringRank(r, time_check, epoch_list_check) ==
    /\ drv_pc[r] = "recurring"
    /\ drv_should_save' = [drv_should_save EXCEPT ![r] =
            RecurringChecks(r, time_check, epoch_list_check)]
    /\ Goes(r, "reason")
    /\ UNCHANGED <<drv_config, drv_epoch, drv_dirs_bound, drv_epochs_run, drv_all_reduce,
                   drv_save_reached, drv_saves, drv_rollouts, drv_records>>

\* train.py:440: ckpt_reason = None
ClearReasonRank(r) ==
    /\ drv_pc[r] = "reason"
    /\ drv_should_save' = [drv_should_save EXCEPT ![r].ckpt_reason = "None"]
    /\ Goes(r, "reason_time")
    /\ UNCHANGED <<drv_config, drv_epoch, drv_dirs_bound, drv_epochs_run, drv_all_reduce,
                   drv_save_reached, drv_saves, drv_rollouts, drv_records>>

\* train.py:441-443: if should_save_ckpt: ckpt_reason = "time"
TimeReasonRank(r) ==
    /\ drv_pc[r] = "reason_time"
    /\ drv_should_save' = [drv_should_save EXCEPT ![r].ckpt_reason =
            IF drv_should_save[r].should_save_ckpt THEN "time" ELSE @]
    /\ Goes(r, "log_train")
    /\ UNCHANGED <<drv_config, drv_epoch, drv_dirs_bound, drv_epochs_run, drv_all_reduce,
                   drv_save_reached, drv_saves, drv_rollouts, drv_records>>

\* train.py:445-461: rank 0 prints and logs the training metrics,
\* all-reduced under ddp; the other ranks only all-reduce
LogTrainRank(r) ==
    /\ drv_pc[r] = "log_train"
    /\ IF r = 0 /\ ~drv_config.ddp
       THEN /\ drv_records' = Counts(drv_records, r, 1)
            /\ Goes(r, "validate")
            /\ UNCHANGED drv_all_reduce
       ELSE /\ drv_all_reduce' = Counts(drv_all_reduce, r, 1)
            /\ Goes(r, "reduce_train")
            /\ UNCHANGED drv_records
    /\ UNCHANGED <<drv_config, drv_epoch, drv_dirs_bound, drv_should_save, drv_epochs_run,
                   drv_save_reached, drv_saves, drv_rollouts>>

\* dist.all_reduce returns once every rank of the group has entered it
AllReduceDone(r) == \A q \in Ranks : drv_all_reduce[q] >= drv_all_reduce[r]

\* train.py:453-455: the reduced training metric is recorded on rank 0
ReduceTrainRank(r) ==
    /\ drv_pc[r] = "reduce_train"
    /\ AllReduceDone(r)
    /\ drv_records' = IF r = 0 THEN Counts(drv_records, r, 1) ELSE drv_records
    /\ Goes(r, "validate")
    /\ UNCHANGED <<drv_config, drv_epoch, drv_dirs_bound, drv_should_save, drv_epochs_run,
                   drv_all_reduce, drv_save_reached, drv_saves, drv_rollouts>>

\* train.py:463-465: if config.experiment.validate, into torch.no_grad()
\* and the first try
ValidateRank(r) ==
    /\ drv_pc[r] = "validate"
    /\ Goes(r, IF drv_config.validate THEN "eval_try" ELSE "save_latest")
    /\ UNCHANGED <<drv_config, drv_epoch, drv_dirs_bound, drv_should_save, drv_epochs_run,
                   drv_all_reduce, drv_save_reached, drv_saves, drv_rollouts, drv_records>>

\* train.py:465-470: low_noise_eval is read and switched off inside
\* try / except: (bare)
EvalTryRank(r) ==
    /\ drv_pc[r] = "eval_try"
    /\ Goes(r, "valid_epoch")
    /\ UNCHANGED <<drv_config, drv_epoch, drv_dirs_bound, drv_should_save, drv_epochs_run,
                   drv_all_reduce, drv_save_reached, drv_saves, drv_rollouts, drv_records>>

\* train.py:471: run_epoch on the validation loader
ValidEpochRank(r) ==
    /\ drv_pc[r] = "valid_epoch"
    /\ Goes(r, "restore_try")
    /\ UNCHANGED <<drv_config, drv_epoch, drv_dirs_bound, drv_should_save, drv_epochs_run,
                   drv_all_reduce, drv_save_reached, drv_saves, drv_rollouts, drv_records>>

\* train.py:472-475: low_noise_eval is restored inside try / except: (bare)
RestoreTryRank(r) ==
    /\ drv_pc[r] = "restore_try"
    /\ Goes(r, "valid_log")
    /\ UNCHANGED <<drv_config, drv_epoch, drv_dirs_bound, drv_should_save, drv_epochs_run,
                   drv_all_reduce, drv_save_reached, drv_saves, drv_rollouts, drv_records>>

\* train.py:476-486, 499-503: rank 0 logs the validation metrics,
\* all-reduced under ddp; the other ranks only all-reduce
ValidLogRank(r) ==
    /\ drv_pc[r] = "valid_log"
    /\ IF r = 0 /\ ~drv_config.ddp
       THEN /\ drv_records' = Counts(drv_records, r, 1)
            /\ Goes(r, "valid_best")
            /\ UNCHANGED drv_all_reduce
       ELSE /\ drv_all_reduce' = Counts(drv_all_reduce, r, 1)
            /\ Goes(r, "reduce_valid")
            /\ UNCHANGED drv_records
    /\ UNCHANGED <<drv_config, drv_epoch, drv_dirs_bound, drv_should_save, drv_epochs_run,
                   drv_save_reached, drv_saves, drv_rollouts>>

\* train.py:483-484: the reduced validation metric is recorded on rank 0
ReduceValidRank(r) ==
    /\ drv_pc[r] = "reduce_valid"
    /\ AllReduceDone(r)
    /\ drv_records' = IF r = 0 THEN Counts(drv_records, r, 1) ELSE drv_records
    /\ Goes(r, IF r = 0 THEN "valid_best" ELSE "save_latest")
    /\ UNCHANGED <<drv_config, drv_epoch, drv_dirs_bound, drv_should_save, drv_epochs_run,
                   drv_all_reduce, drv_save_reached, drv_saves, drv_rollouts>>

\* train.py:488-496: the validation log is printed and the loss compared
\* with the best so far; best says that it is a new best and that
\* save.on_best_validation is set, which with saving enabled leads to the
\* two assignments that ask for a checkpoint
ValidBestRank(r, best) ==
    /\ drv_pc[r] = "valid_best"
    /\ Goes(r, IF best /\ drv_config.save_enabled THEN "valid_save" ELSE "save_latest")
    /\ UNCHANGED <<drv_config, drv_epoch, drv_dirs_bound, drv_should_save, drv_epochs_run,
                   drv_all_reduce, drv_save_reached, drv_saves, drv_rollouts, drv_records>>

\* train.py:497: should_save_ckpt = True
ValidSaveRank(r) ==
    /\ drv_pc[r] = "valid_save"
    /\ drv_should_save' = [drv_should_save EXCEPT ![r] =
            [@ EXCEPT !.should_save_ckpt = TRUE, !.fired = @ \cup {"valid"}]]
    /\ Goes(r, "valid_reason")
    /\ UNCHANGED <<drv_config, drv_epoch, drv_dirs_bound, drv_epochs_run, drv_all_reduce,
                   drv_save_reached, drv_saves, drv_rollouts, drv_records>>

\* train.py:498: ckpt_reason = "valid" if ckpt_reason is None else ckpt_reason
ValidReasonRank(r) ==
    /\ drv_pc[r] = "valid_reason"
    /\ drv_should_save' = [drv_should_save EXCEPT ![r].ckpt_reason =
            IF @ = "None" THEN "valid" ELSE @]
    /\ Goes(r, "save_latest")
    /\ UNCHANGED <<drv_config, drv_epoch, drv_dirs_bound, drv_epochs_run, drv_all_reduce,
                   drv_save_reached, drv_saves, drv_rollouts, drv_records>>

\* train.py:506-517: the first save of model_latest.pth, on every rank;
\* os.path.join(ckpt_dir, ...) is evaluated first and fails where ckpt_dir
\* was never assigned
SaveLatestRank(r) ==
    /\ drv_pc[r] = "save_latest"
    /\ drv_save_reached' = Counts(drv_save_reached, r, 1)
    /\ IF ~drv_dirs_bound[r]
       THEN /\ Fails(r, "UnboundLocalError")
            /\ UNCHANGED <<drv_saves, drv_should_save>>
       ELSE /\ drv_saves' = Counts(drv_saves, r, 1)
            /\ drv_should_save' = [drv_should_save EXCEPT ![r].latest = 1]
            /\ Goes(r, "save_again")
    /\ UNCHANGED <<drv_config, drv_epoch, drv_dirs_bound, drv_epochs_run,
                   drv_all_reduce, drv_rollouts, drv_records>>

\* train.py:519-531: model_latest.pth once more when the epoch is a
\* multiple of save.every_n_epochs; with every_n_epochs None the test
\* "epoch % None" raises TypeError
SaveAgainRank(r) ==
    /\ drv_pc[r] = "save_again"
    /\ IF drv_config.every_n_epochs = NotSet
       THEN /\ Fails(r, "TypeError")
            /\ UNCHANGED <<drv_save_reached, drv_saves, drv_should_save>>
       ELSE IF drv_epoch[r] % drv_config.every_n_epochs = 0
            THEN /\ drv_save_reached' = Counts(drv_save_reached, r, 1)
                 /\ IF ~drv_dirs_bound[r]
                    THEN /\ Fails(r, "UnboundLocalError")
                         /\ UNCHANGED <<drv_saves, drv_should_save>>
                    ELSE /\ drv_saves' = Counts(drv_saves, r, 1)
                         /\ drv_should_save' = [drv_should_save EXCEPT ![r].latest = 2]
                         /\ Goes(r, IF r = 0 THEN "rollouts" ELSE "end_epoch")
            ELSE /\ Goes(r, IF r = 0 THEN "rollouts" ELSE "end_epoch")
                 /\ UNCHANGED <<drv_save_reached, drv_saves, drv_should_save>>
    /\ UNCHANGED <<drv_config, drv_epoch, drv_dirs_bound, drv_epochs_run,
                   drv_all_reduce, drv_rollouts, drv_records>>

\* rollout_check of train.py:536 (rollout.warmstart is 0)
RolloutCheck(r) ==
    \/ drv_epoch[r] % drv_config.rollout_rate = 0
    \/ drv_should_save[r].should_save_ckpt /\ drv_should_save[r].ckpt_reason = "time"

\* what TrainUtils.should_save_from_rollout_logs may return: whether the
\* rollouts ask for a checkpoint, and the reason it gives or None
RolloutStats == [should_save_ckpt : BOOLEAN, ckpt_reason : {"None", "success"}]

\* train.py:537: whether the epoch has rollouts
Rolls(r) == drv_config.rollout_enabled /\ drv_epoch[r] > 0 /\ RolloutCheck(r)

\* train.py:534-537: on rank 0, whether the epoch has rollouts
RolloutsRank(r) ==
    /\ drv_pc[r] = "rollouts"
    /\ Goes(r, IF Rolls(r) THEN "rollout_run" ELSE "ckpt_save")
    /\ UNCHANGED <<drv_config, drv_epoch, drv_dirs_bound, drv_should_save, drv_epochs_run,
                   drv_all_reduce, drv_save_reached, drv_saves, drv_rollouts, drv_records>>

\* train.py:539-554: TrainUtils.rollout_with_stats runs the rollouts
RunRolloutsRank(r) ==
    /\ drv_pc[r] = "rollout_run"
    /\ drv_rollouts' = Counts(drv_rollouts, r, 1)
    /\ Goes(r, "rollout_log")
    /\ UNCHANGED <<drv_config, drv_epoch, drv_dirs_bound, drv_should_save, drv_epochs_run,
                   drv_all_reduce, drv_save_reached, drv_saves, drv_records>>

\* train.py:556-569: the videos and the rollout logs are recorded
LogRolloutsRank(r) ==
    /\ drv_pc[r] = "rollout_log"
    /\ drv_records' = Counts(drv_records, r, 1)
    /\ Goes(r, "rollout_stats")
    /\ UNCHANGED <<drv_config, drv_epoch, drv_dirs_bound, drv_should_save, drv_epochs_run,
                   drv_all_reduce, drv_save_reached, drv_saves, drv_rollouts>>

\* train.py:572-583: should_save_from_rollout_logs returns updated_stats and
\* should_save_ckpt = (save.enabled and updated_stats["should_save_ckpt"])
\* or should_save_ckpt
RolloutSaveRank(r, updated_stats) ==
    /\ drv_pc[r] = "rollout_stats"
    /\ LET asked == drv_config.save_enabled /\ updated_stats.should_save_ckpt
       IN  drv_should_save' = [drv_should_save EXCEPT ![r] =
                   [@ EXCEPT !.should_save_ckpt = asked \/ @,
                             !.fired = @ \cup (IF asked THEN {"rollout"} ELSE {})]]
    /\ Goes(r, "rollout_reason")
    /\ UNCHANGED <<drv_config, drv_epoch, drv_dirs_bound, drv_epochs_run, drv_all_reduce,
                   drv_save_reached, drv_saves, drv_rollouts, drv_records>>

\* train.py:584-585: ckpt_reason takes the reason of updated_stats unless
\* that is None. updated_stats is not kept between the two steps: whatever
\* should_save_from_rollout_logs returns, the step reads the one entry it
\* needs, and every pair of entries is a value of RolloutStats
RolloutReasonRank(r, updated_stats) ==
    /\ drv_pc[r] = "rollout_reason"
    /\ drv_should_save' = [drv_should_save EXCEPT ![r].ckpt_reason =
            IF updated_stats.ckpt_reason # "None" THEN updated_stats.ckpt_reason ELSE @]
    /\ Goes(r, "ckpt_save")
    /\ UNCHANGED <<drv_config, drv_epoch, drv_dirs_bound, drv_epochs_run, drv_all_reduce,
                   drv_save_reached, drv_saves, drv_rollouts, drv_records>>

\* train.py:587-606: the videos are kept or removed, and the checkpoint of
\* the epoch is saved when one is asked for
CkptSaveRank(r) ==
    /\ drv_pc[r] = "ckpt_save"
    /\ LET saves == drv_should_save[r].should_save_ckpt
       IN  /\ drv_save_reached' = Counts(drv_save_reached, r, IF saves THEN 1 ELSE 0)
           /\ drv_saves' = Counts(drv_saves, r, IF saves THEN 1 ELSE 0)
           /\ drv_should_save' = [drv_should_save EXCEPT ![r].ckpt =
                   [written |-> saves, epoch |-> drv_epoch[r],
                    best_validation |-> "valid" \in drv_should_save[r].fired]]
    /\ Goes(r, "record")
    /\ UNCHANGED <<drv_config, drv_epoch, drv_dirs_bound, drv_epochs_run, drv_all_reduce,
                   drv_rollouts, drv_records>>

\* train.py:609-612: the memory usage is recorded
RecordRank(r) ==
    /\ drv_pc[r] = "record"
    /\ drv_records' = Counts(drv_records, r, 1)
    /\ Goes(r, "end_epoch")
    /\ UNCHANGED <<drv_config, drv_epoch, drv_dirs_bound, drv_should_save, drv_epochs_run,
                   drv_all_reduce, drv_save_reached, drv_saves, drv_rollouts>>

\* the loop header (train.py:417): the body of the epoch is over, the loop
\* variable takes its next value or the loop ends
EndEpochRank(r) ==
    /\ drv_pc[r] = "end_epoch"
    /\ drv_should_save' = [drv_should_save EXCEPT ![r].ended = TRUE]
    /\ drv_epoch' = Counts(drv_epoch, r, 1)
    /\ IF drv_epoch[r] + 1 > drv_config.num_epochs THEN Goes(r, "close") ELSE Goes(r, "train")
    /\ UNCHANGED <<drv_config, drv_dirs_bound, drv_epochs_run, drv_all_reduce,
                   drv_save_reached, drv_saves, drv_rollouts, drv_records>>

\* train.py:613-615: data_logger.close() on rank 0, then train() returns
CloseRank(r) ==
    /\ drv_pc[r] = "close"
    /\ Goes(r, "done")
    /\ UNCHANGED <<drv_config, drv_epoch, drv_dirs_bound, drv_should_save, drv_epochs_run,
                   drv_all_reduce, drv_save_reached, drv_saves, drv_rollouts, drv_records>>

\* the variable epoch as the handler's closure reads it: the loop variable,
\* which keeps its last value once the loop is over
LoopEpoch(r) ==
    IF drv_epoch[r] > drv_config.num_epochs THEN drv_config.num_epochs ELSE drv_epoch[r]

\* if rank == 0 (train.py:398)
HandlerSaves(r) == r = 0

\* the rank waits inside dist.all_reduce for the others
InCollective(r) == drv_pc[r] \in {"reduce_train", "reduce_valid"} /\ ~AllReduceDone(r)

\* the statements inside try / except: (bare) of train.py:465-470 and
\* 472-475; the bare except catches the SystemExit of exit() as well
InBareTry(r) == drv_pc[r] \in {"eval_try", "restore_try"}

\* train.py:395-413: SIGUSR1 reaches the process of rank r; the handler
\* runs as soon as the interpreter has control, saves model_latest.pth on
\* rank 0 and calls exit(). SystemExit is no Exception, main does not catch
\* it; raised inside one of the two bare try blocks it is swallowed there
\* and the run goes on after the block.
\* The record keeps the epoch the closure read and whether the signal came
\* before run_epoch of that epoch ("train") or later
HandlerRank(r) ==
    /\ drv_handler[r].installed
    /\ drv_handler[r].signals < MaxSignals
    /\ drv_pc[r] # "exited"
    /\ drv_res_str[r] = NoStatus
    /\ ~InCollective(r)
    /\ drv_handler' = [drv_handler EXCEPT ![r] =
            [installed |-> TRUE, ran |-> TRUE, saved |-> HandlerSaves(r),
             epoch |-> LoopEpoch(r), at |-> IF drv_pc[r] = "train" THEN "train" ELSE "later",
             epochs_run |-> drv_epochs_run[r], signals |-> @.signals + 1]]
    /\ drv_saves' = Counts(drv_saves, r, IF HandlerSaves(r) THEN 1 ELSE 0)
    /\ drv_save_reached' = Counts(drv_save_reached, r, IF HandlerSaves(r) THEN 1 ELSE 0)
    /\ IF InBareTry(r)
       THEN Goes(r, IF drv_pc[r] = "eval_try" THEN "valid_epoch" ELSE "valid_log")
       ELSE Goes(r, "exited")
    /\ UNCHANGED <<drv_config, drv_epoch, drv_dirs_bound, drv_should_save, drv_epochs_run,
                   drv_all_reduce, drv_rollouts, drv_records, drv_res_str>>

\* a plausible slip: the status set only where it is initialised
ResultString_never_failed(r) == [status |-> "finished run successfully!", error |-> "none"]

\* res_str of main (train.py:736-745): the initial value, or the one the
\* except clause builds from the exception and its traceback
ResultString(r) ==
    IF drv_error[r] = "none"
    THEN [status |-> "finished run successfully!", error |-> "none"]
    ELSE [status |-> "run failed with error", error |-> drv_error[r]]

\* train.py:738-745: train() returned or raised an Exception; main prints
\* res_str and returns
MainReturnsRank(r) ==
    /\ drv_pc[r] \in {"done", "failed"}
    /\ drv_res_str[r] = NoStatus
    /\ drv_res_str' = [drv_res_str EXCEPT ![r] = ResultString(r)]
    /\ UNCHANGED <<drv_config, drv_pc, drv_epoch, drv_dirs_bound, drv_should_save,
                   drv_epochs_run, drv_all_reduce, drv_save_reached, drv_saves,
                   drv_rollouts, drv_records, drv_handler, drv_error>>

\* the checks of an epoch are evaluated on rank 0 only, and only when
\* saving is enabled (train.py:431-433, 491-493)
ChecksOf(r) == IF r = 0 /\ drv_config.save_enabled THEN BOOLEAN ELSE {FALSE}

Setup == (\E r \in Ranks : SetupRank(r)) /\ UNCHANGED <<drv_res_str, notDriver>>
TrainEpoch ==
    (\E r \in Ranks : TrainEpochRank(r)) /\ UNCHANGED <<drv_handler, drv_res_str, notDriver>>
ResetCheck ==
    (\E r \in Ranks : ResetCheckRank(r)) /\ UNCHANGED <<drv_handler, drv_res_str, notDriver>>
Recurring ==
    (\E r \in Ranks : \E time_check \in ChecksOf(r), epoch_list_check \in ChecksOf(r) :
        RecurringRank(r, time_check, epoch_list_check))
        /\ UNCHANGED <<drv_handler, drv_res_str, notDriver>>
ClearReason ==
    (\E r \in Ranks : ClearReasonRank(r)) /\ UNCHANGED <<drv_handler, drv_res_str, notDriver>>
TimeReason ==
    (\E r \in Ranks : TimeReasonRank(r)) /\ UNCHANGED <<drv_handler, drv_res_str, notDriver>>
LogTrain ==
    (\E r \in Ranks : LogTrainRank(r)) /\ UNCHANGED <<drv_handler, drv_res_str, notDriver>>
ReduceTrain ==
    (\E r \in Ranks : ReduceTrainRank(r)) /\ UNCHANGED <<drv_handler, drv_res_str, notDriver>>
Validate ==
    (\E r \in Ranks : ValidateRank(r)) /\ UNCHANGED <<drv_handler, drv_res_str, notDriver>>
EvalTry ==
    (\E r \in Ranks : EvalTryRank(r)) /\ UNCHANGED <<drv_handler, drv_res_str, notDriver>>
ValidEpoch ==
    (\E r \in Ranks : ValidEpochRank(r)) /\ UNCHANGED <<drv_handler, drv_res_str, notDriver>>
RestoreTry ==
    (\E r \in Ranks : RestoreTryRank(r)) /\ UNCHANGED <<drv_handler, drv_res_str, notDriver>>
ValidLog ==
    (\E r \in Ranks : ValidLogRank(r)) /\ UNCHANGED <<drv_handler, drv_res_str, notDriver>>
ReduceValid ==
    (\E r \in Ranks : ReduceValidRank(r)) /\ UNCHANGED <<drv_handler, drv_res_str, notDriver>>
ValidBest ==
    (\E r \in Ranks : \E best \in ChecksOf(r) : ValidBestRank(r, best))
        /\ UNCHANGED <<drv_handler, drv_res_str, notDriver>>
ValidSave ==
    (\E r \in Ranks : ValidSaveRank(r)) /\ UNCHANGED <<drv_handler, drv_res_str, notDriver>>
ValidReason ==
    (\E r \in Ranks : ValidReasonRank(r)) /\ UNCHANGED <<drv_handler, drv_res_str, notDriver>>
SaveLatest ==
    (\E r \in Ranks : SaveLatestRank(r)) /\ UNCHANGED <<drv_handler, drv_res_str, notDriver>>
SaveAgain ==
    (\E r \in Ranks : SaveAgainRank(r)) /\ UNCHANGED <<drv_handler, drv_res_str, notDriver>>
Rollouts ==
    (\E r \in Ranks : RolloutsRank(r)) /\ UNCHANGED <<drv_handler, drv_res_str, notDriver>>
RunRollouts ==
    (\E r \in Ranks : RunRolloutsRank(r)) /\ UNCHANGED <<drv_handler, drv_res_str, notDriver>>
LogRollouts ==
    (\E r \in Ranks : LogRolloutsRank(r)) /\ UNCHANGED <<drv_handler, drv_res_str, notDriver>>
RolloutSave ==
    (\E r \in Ranks : \E updated_stats \in RolloutStats : RolloutSaveRank(r, updated_stats))
        /\ UNCHANGED <<drv_handler, drv_res_str, notDriver>>
RolloutReason ==
    (\E r \in Ranks : \E updated_stats \in RolloutStats : RolloutReasonRank(r, updated_stats))
        /\ UNCHANGED <<drv_handler, drv_res_str, notDriver>>
CkptSave ==
    (\E r \in Ranks : CkptSaveRank(r)) /\ UNCHANGED <<drv_handler, drv_res_str, notDriver>>
Record ==
    (\E r \in Ranks : RecordRank(r)) /\ UNCHANGED <<drv_handler, drv_res_str, notDriver>>
EndEpoch ==
    (\E r \in Ranks : EndEpochRank(r)) /\ UNCHANGED <<drv_handler, drv_res_str, notDriver>>
Close ==
    (\E r \in Ranks : CloseRank(r)) /\ UNCHANGED <<drv_handler, drv_res_str, notDriver>>
Handler == (\E r \in Ranks : HandlerRank(r)) /\ UNCHANGED notDriver
MainReturns == (\E r \in Ranks : MainReturnsRank(r)) /\ UNCHANGED notDriver

DriverStarted ==
    /\ drv_pc = [r \in AllRanks |-> IF r \in Ranks THEN "start" ELSE "absent"]
    /\ drv_epoch = [r \in AllRanks |-> 0]
    /\ drv_dirs_bound = [r \in AllRanks |-> FALSE]
    /\ drv_should_save = [r \in AllRanks |-> NoSave]
    /\ drv_epochs_run = [r \in AllRanks |-> 0]
    /\ drv_all_reduce = [r \in AllRanks |-> 0]
    /\ drv_save_reached = [r \in AllRanks |-> 0]
    /\ drv_saves = [r \in AllRanks |-> 0]
    /\ drv_rollouts = [r \in AllRanks |-> 0]
    /\ drv_records = [r \in AllRanks |-> 0]
    /\ drv_handler = [r \in AllRanks |-> NoHandler]
    /\ drv_res_str = [r \in AllRanks |-> NoStatus]
    /\ drv_error = [r \in AllRanks |-> "none"]

DriverIdle ==
    /\ drv_config = [ddp |-> FALSE, world_size |-> 1, num_epochs |-> 1, validate |-> FALSE,
                     save_enabled |-> FALSE, every_n_epochs |-> 1,
                     rollout_enabled |-> FALSE, rollout_rate |-> 1,
                     terminal_output_to_txt |-> FALSE]
    /\ DriverStarted

DriverInit ==
    /\ drv_config \in DriverConfigs
    /\ DriverStarted

DriverNext ==
    \/ Setup \/ TrainEpoch \/ ResetCheck \/ Recurring \/ ClearReason \/ TimeReason
    \/ LogTrain \/ ReduceTrain \/ Validate \/ EvalTry \/ ValidEpoch \/ RestoreTry
    \/ ValidLog \/ ReduceValid \/ ValidBest \/ ValidSave \/ ValidReason
    \/ SaveLatest \/ SaveAgain
    \/ Rollouts \/ RunRollouts \/ LogRollouts \/ RolloutSave \/ RolloutReason
    \/ CkptSave \/ Record \/ EndEpoch \/ Close
    \/ Handler \/ MainReturns

-----------------------------------------------------------------------------
(***************************************************************************)
(* The vectorized env wrappers: train.py, env_method_pass_idx              *)
(***************************************************************************)

MaxVecEnvs == 3     \* environments of the vectorized env
MaxTargets == 3     \* indices of one request

VecEnvs == 0..(MaxVecEnvs - 1)
Requests == UNION {[1..n -> VecEnvs] : n \in 1..MaxTargets}
NoIdx == -1

\* what env i's method returns when called with env_idx = idx
MethodResult(i, idx) == <<i, idx>>

\* a plausible slip: the worker reads the caller's dict, not a copy of it
Received_shared_dict(msg) == vec_kwargs

\* remote.send pickles the tuple when it is called: the worker gets the
\* env_idx the dict held at that moment
Received(msg) == msg

Target == vec_indices[vec_pos + 1]
LastTarget == vec_pos + 1 = Len(vec_indices)

\* env_method_pass_idx(method_name, ..., indices=indices) is called
VecRequest ==
    /\ vec_pc = "idle"
    /\ \E kind \in {"subproc", "dummy"}, indices \in Requests :
          /\ vec_kind' = kind
          /\ vec_indices' = indices
          /\ vec_pc' = IF kind = "subproc" THEN "sending" ELSE "calling"
    /\ UNCHANGED <<vec_pos, vec_kwargs, vec_pipe, vec_back, vec_calls, vec_out, notVec>>

\* train.py:65-67: one turn of the loop over zip(indices, target_remotes)
VecSend ==
    /\ vec_pc = "sending"
    /\ vec_kwargs' = Target
    /\ vec_pipe' = [vec_pipe EXCEPT ![Target] = Append(@, Target)]
    /\ IF LastTarget THEN vec_pc' = "receiving" /\ vec_pos' = 0
       ELSE vec_pos' = vec_pos + 1 /\ UNCHANGED vec_pc
    /\ UNCHANGED <<vec_kind, vec_indices, vec_back, vec_calls, vec_out, notVec>>

\* the worker process of env i reads one message, calls the method with
\* the keyword arguments of the message and sends the result back
VecWork ==
    /\ \E i \in VecEnvs :
          /\ vec_pipe[i] # <<>>
          /\ LET idx == Received(Head(vec_pipe[i]))
             IN  /\ vec_calls' = [vec_calls EXCEPT ![i] = Append(@, idx)]
                 /\ vec_back' = [vec_back EXCEPT ![i] = Append(@, MethodResult(i, idx))]
          /\ vec_pipe' = [vec_pipe EXCEPT ![i] = Tail(@)]
    /\ UNCHANGED <<vec_kind, vec_pc, vec_indices, vec_pos, vec_kwargs, vec_out, notVec>>

\* train.py:68: [remote.recv() for remote in target_remotes], one recv
VecRecv ==
    /\ vec_pc = "receiving"
    /\ vec_back[Target] # <<>>
    /\ vec_out' = Append(vec_out, Head(vec_back[Target]))
    /\ vec_back' = [vec_back EXCEPT ![Target] = Tail(@)]
    /\ IF LastTarget THEN vec_pc' = "done" /\ UNCHANGED vec_pos
       ELSE vec_pos' = vec_pos + 1 /\ UNCHANGED vec_pc
    /\ UNCHANGED <<vec_kind, vec_indices, vec_kwargs, vec_pipe, vec_calls, notVec>>

\* train.py:75-77: one turn of the loop of the in-process wrapper
VecCall ==
    /\ vec_pc = "calling"
    /\ vec_kwargs' = Target
    /\ vec_calls' = [vec_calls EXCEPT ![Target] = Append(@, Target)]
    /\ vec_out' = Append(vec_out, MethodResult(Target, Target))
    /\ IF LastTarget THEN vec_pc' = "done" /\ UNCHANGED vec_pos
       ELSE vec_pos' = vec_pos + 1 /\ UNCHANGED vec_pc
    /\ UNCHANGED <<vec_kind, vec_indices, vec_pipe, vec_back, notVec>>

VecIdle ==
    /\ vec_kind = "dummy"
    /\ vec_pc = "idle"
    /\ vec_indices = <<>>
    /\ vec_pos = 0
    /\ vec_kwargs = NoIdx
    /\ vec_pipe = [i \in VecEnvs |-> <<>>]
    /\ vec_back = [i \in VecEnvs |-> <<>>]
    /\ vec_calls = [i \in VecEnvs |-> <<>>]
    /\ vec_out = <<>>

VecNext == VecRequest \/ VecSend \/ VecWork \/ VecRecv \/ VecCall

-----------------------------------------------------------------------------
(***************************************************************************)
(* The shards of the parallel envs: train.py, train(), the loops over      *)
(* range(config.experiment.num_envs)                                       *)
(***************************************************************************)

MaxParallelEnvs == 21   \* config.experiment.num_envs is 1..MaxParallelEnvs
MaxMaskLen == 15        \* episodes in one mask of the file

\* the names of the loop body before the first iteration binds them
Unbound == [bound |-> FALSE, split |-> "None", num_split_envs |-> 0, shift |-> 0]
Bound(split, num_split_envs, shift) ==
    [bound |-> TRUE, split |-> split, num_split_envs |-> num_split_envs, shift |-> shift]

\* the if / elif of the loop body (train.py:231-238): an env_idx of 20 or
\* more takes neither branch and the names keep their last values
LoopBody(env_idx) ==
    IF env_idx < 5 THEN Bound("train", 5, 0)
    ELSE IF env_idx < 20 THEN Bound("valid", 15, 5)
    ELSE asg_loop

\* the loop body of the single-env branch (train.py:242-244)
SingleBody == Bound("valid", 1, 0)

\* self.demos of set_env_specific_params (env_mp.py:133-139), as positions
\* in the mask of the split
ShardPositions(len, split, num_envs, shift, use_env_idx, env_idx) ==
    LET idx == IF split = "valid"
               THEN (IF num_envs = 1 THEN 0 ELSE env_idx - shift)
               ELSE env_idx
    IN  IF use_env_idx
        THEN {i \in 0..(len - 1) : i % num_envs = idx}
        ELSE 0..(len - 1)

\* one iteration of the loop: the names are bound and the env's
\* set_env_specific_params is called through env_method_pass_idx
AssignEnv ==
    /\ asg_env_idx < asg_num_envs
    /\ LET body == IF asg_num_envs > 1 THEN LoopBody(asg_env_idx) ELSE SingleBody
       IN  /\ asg_loop' = body
           /\ asg_pools' = Append(asg_pools,
                  [split |-> body.split,
                   demos |-> ShardPositions(asg_masks[body.split], body.split,
                                            body.num_split_envs, body.shift, TRUE,
                                            asg_env_idx)])
    /\ asg_env_idx' = asg_env_idx + 1
    /\ UNCHANGED <<asg_num_envs, asg_masks, notAsg>>

AsgConstructed ==
    /\ asg_env_idx = 0
    /\ asg_loop = Unbound
    /\ asg_pools = <<>>

AsgIdle ==
    /\ asg_num_envs = 1
    /\ asg_masks = [train |-> 1, valid |-> 1]
    /\ AsgConstructed

AsgInit ==
    /\ asg_num_envs \in 1..MaxParallelEnvs
    /\ asg_masks \in [train : 0..MaxMaskLen, valid : 0..MaxMaskLen]
    /\ AsgConstructed

AsgNext == AssignEnv

-----------------------------------------------------------------------------
(***************************************************************************)
(* The best validation loss: train.py, train(), rank 0's checkpoint        *)
(* decision of one epoch                                                   *)
(***************************************************************************)

MaxValidEpochs == 3     \* epochs of one run
MaxLoss == 2            \* step_log["Loss"] is 0..MaxLoss

BvConfigs == [validate : BOOLEAN, save_enabled : BOOLEAN, on_best_validation : BOOLEAN]

\* the decision before the loop body sets it up
NoDecision ==
    [should_save_ckpt |-> FALSE, ckpt_reason |-> "None", best_validation |-> None,
     validated |-> FALSE, loss |-> None]

\* a plausible slip: a tie with the best loss is not a new best
NewBest_strict(loss) ==
    IF best_valid_loss.none THEN TRUE ELSE loss < best_valid_loss.val

\* best_valid_loss is None or (step_log["Loss"] <= best_valid_loss)
NewBest(loss) ==
    IF best_valid_loss.none THEN TRUE ELSE loss <= best_valid_loss.val

\* train.py:432-443: should_save_ckpt and ckpt_reason after the recurring
\* conditions; recurring says whether one of them fired
AfterRecurring(recurring) ==
    IF bv_config.save_enabled /\ recurring
    THEN [NoDecision EXCEPT !.should_save_ckpt = TRUE, !.ckpt_reason = "time"]
    ELSE NoDecision

\* train.py:491-498: valid_check is "Loss" in step_log
AfterValidLoss(decision, valid_check, loss) ==
    IF valid_check /\ NewBest(loss)
    THEN IF bv_config.save_enabled /\ bv_config.on_best_validation
         THEN [decision EXCEPT !.should_save_ckpt = TRUE,
                               !.ckpt_reason = IF @ = "None" THEN "valid" ELSE @,
                               !.best_validation = Some(loss)]
         ELSE decision
    ELSE decision

\* one pass of the loop body on rank 0, up to the end of the validation
BvEpoch ==
    /\ bv_epoch < MaxValidEpochs
    /\ \E recurring \in BOOLEAN, valid_check \in BOOLEAN, loss \in 0..MaxLoss :
          LET decision == AfterRecurring(recurring)
          IN  IF bv_config.validate
              THEN /\ best_valid_loss' = IF valid_check /\ NewBest(loss)
                                         THEN Some(loss) ELSE best_valid_loss
                   /\ bv_decision' =
                         [AfterValidLoss(decision, valid_check, loss) EXCEPT
                             !.validated = valid_check,
                             !.loss = IF valid_check THEN Some(loss) ELSE None]
                   /\ bv_losses' = IF valid_check THEN Append(bv_losses, loss)
                                    ELSE bv_losses
              ELSE /\ bv_decision' = decision
                   /\ UNCHANGED <<best_valid_loss, bv_losses>>
    /\ bv_epoch' = bv_epoch + 1
    /\ UNCHANGED <<bv_config, notBv>>

BvConstructed ==
    /\ bv_epoch = 0
    /\ best_valid_loss = None
    /\ bv_decision = NoDecision
    /\ bv_losses = <<>>

BvIdle ==
    /\ bv_config = [validate |-> FALSE, save_enabled |-> FALSE,
                    on_best_validation |-> FALSE]
    /\ BvConstructed

BvInit ==
    /\ bv_config \in BvConfigs
    /\ BvConstructed

BvNext == BvEpoch

-----------------------------------------------------------------------------
(***************************************************************************)
(* BalancedConcatSampler (train.py)                                        *)
(***************************************************************************)

MaxDatasets == 2
MaxDatasetLen == 3
MaxBatchSize == 6
MaxIterations == 4

\* the dataset_lengths a sampler is built over
DatasetLengths == UNION {[1..n -> 0..MaxDatasetLen] : n \in 0..MaxDatasets}

RECURSIVE max(_)
max(lengths) ==
    IF Len(lengths) = 1 THEN Head(lengths) ELSE Max(Head(lengths), max(Tail(lengths)))

\* batch_size // self.num_datasets
samples_per_dataset(lengths, batch_size) == batch_size \div Len(lengths)

\* (max_length // self.samples_per_dataset) * self.num_datasets
iterations(lengths, batch_size) ==
    (max(lengths) \div samples_per_dataset(lengths, batch_size)) * Len(lengths)

\* the ZeroDivisionError of __init__: no dataset, or fewer samples than datasets
InitDividesByZero(lengths, batch_size) ==
    IF Len(lengths) = 0 THEN TRUE ELSE samples_per_dataset(lengths, batch_size) = 0

\* list * n
RECURSIVE Repeat(_, _)
Repeat(list, n) == IF n <= 0 THEN <<>> ELSE list \o Repeat(list, n - 1)

\* list without its k-th element
Without(list, k) == SubSeq(list, 1, k - 1) \o SubSeq(list, k + 1, Len(list))

\* np.random.shuffle(idx_list): the orders the list can be left in, which
\* are all the rearrangements of its elements
RECURSIVE shuffle(_)
shuffle(list) ==
    IF list = <<>> THEN {<<>>}
    ELSE UNION {{<<list[k]>> \o rest : rest \in shuffle(Without(list, k))} :
                   k \in {j \in 1..Len(list) : \A h \in 1..(j - 1) : list[h] # list[j]}}

\* np.cumsum([0] + self.dataset_lengths[:-1]), the entry of dataset d
RECURSIVE dataset_offsets(_, _)
dataset_offsets(lengths, d) ==
    IF d = 1 THEN 0 ELSE dataset_offsets(lengths, d - 1) + lengths[d - 1]

\* [list(range(length)) * (self.iterations // length + 1) for length in ...]
indices(lengths, iters) ==
    [d \in 1..Len(lengths) |-> Repeat(Range(lengths[d]), iters \div lengths[d] + 1)]

\* for idx_list in indices: np.random.shuffle(idx_list), every list shuffled
\* on its own: the values indices can have after the loop
RECURSIVE Shuffled(_)
Shuffled(lists) ==
    IF lists = <<>> THEN {<<>>}
    ELSE {<<first>> \o others :
             first \in shuffle(Head(lists)), others \in Shuffled(Tail(lists))}

Min(a, b) == IF a <= b THEN a ELSE b

\* a[lo:hi] of Python, lo and hi not negative
Slice(a, lo, hi) ==
    IF lo >= Len(a) \/ lo >= hi THEN <<>>
    ELSE [k \in 1..(Min(hi, Len(a)) - lo) |-> a[lo + k]]

\* np.array(idx_list)[:self.iterations] + offset, for every dataset
adjusted_indices(lengths, iters, shuffled) ==
    [d \in 1..Len(lengths) |->
        [k \in 1..Len(Slice(shuffled[d], 0, iters)) |->
            Slice(shuffled[d], 0, iters)[k] + dataset_offsets(lengths, d)]]

\* idx_list[i:i + self.samples_per_dataset] of every dataset
BatchParts(adjusted, i, spd) ==
    [d \in 1..Len(adjusted) |-> Slice(adjusted[d], i, i + spd)]

\* batch_indices after the extends
RECURSIVE batch_indices(_)
batch_indices(parts) ==
    IF parts = <<>> THEN <<>> ELSE Head(parts) \o batch_indices(Tail(parts))

\* __len__
SamplerLen == bcs_self.iterations \div bcs_self.samples_per_dataset

NotBuilt == [num_datasets |-> 0, samples_per_dataset |-> 0, iterations |-> 0]

\* __init__
SamplerConstruct ==
    /\ bcs_pc = "new"
    /\ IF InitDividesByZero(bcs_lengths, bcs_batch_size)
       THEN /\ bcs_pc' = "failed"
            /\ bcs_error' = "ZeroDivisionError"
            /\ UNCHANGED bcs_self
       ELSE /\ bcs_self' =
                [num_datasets |-> Len(bcs_lengths),
                 samples_per_dataset |-> samples_per_dataset(bcs_lengths, bcs_batch_size),
                 iterations |-> iterations(bcs_lengths, bcs_batch_size)]
            /\ bcs_pc' = "constructed"
            /\ UNCHANGED bcs_error
    /\ UNCHANGED <<bcs_lengths, bcs_batch_size, bcs_adjusted, bcs_i, bcs_parts,
                   bcs_batch, bcs_yielded, notBcs>>

\* one turn of the for loop of __iter__ at i: a batch is yielded, or the
\* range is used up and the generator returns
LoopTurn(adjusted, i) ==
    IF i < bcs_self.iterations
    THEN /\ bcs_parts' = BatchParts(adjusted, i, bcs_self.samples_per_dataset)
         /\ bcs_batch' =
                batch_indices(BatchParts(adjusted, i, bcs_self.samples_per_dataset))
         /\ bcs_yielded' = bcs_yielded + 1
         /\ bcs_i' = i
         /\ bcs_pc' = "yielded"
    ELSE /\ bcs_pc' = "exhausted"
         /\ UNCHANGED <<bcs_parts, bcs_batch, bcs_yielded, bcs_i>>

\* the first next() on iter(sampler): the body of __iter__ up to its first
\* yield
SamplerIter ==
    /\ bcs_pc = "constructed"
    /\ IF \E d \in 1..Len(bcs_lengths) : bcs_lengths[d] = 0
       THEN /\ bcs_pc' = "failed"
            /\ bcs_error' = "ZeroDivisionError"
            /\ UNCHANGED <<bcs_adjusted, bcs_i, bcs_parts, bcs_batch, bcs_yielded>>
       ELSE \E shuffled \in Shuffled(indices(bcs_lengths, bcs_self.iterations)) :
            /\ bcs_adjusted' =
                   adjusted_indices(bcs_lengths, bcs_self.iterations, shuffled)
            /\ LoopTurn(adjusted_indices(bcs_lengths, bcs_self.iterations, shuffled), 0)
            /\ UNCHANGED bcs_error
    /\ UNCHANGED <<bcs_lengths, bcs_batch_size, bcs_self, notBcs>>

\* every later next(): the loop goes on from the yield
SamplerNextBatch ==
    /\ bcs_pc = "yielded"
    /\ LoopTurn(bcs_adjusted, bcs_i + bcs_self.samples_per_dataset)
    /\ UNCHANGED <<bcs_lengths, bcs_batch_size, bcs_self, bcs_adjusted, bcs_error,
                   notBcs>>

BcsFresh ==
    /\ bcs_self = NotBuilt
    /\ bcs_adjusted = <<>>
    /\ bcs_i = 0
    /\ bcs_parts = <<>>
    /\ bcs_batch = <<>>
    /\ bcs_yielded = 0
    /\ bcs_error = "none"

BcsIdle ==
    /\ bcs_lengths = <<>>
    /\ bcs_batch_size = 0
    /\ bcs_pc = "none"
    /\ BcsFresh

\* the samplers built: those of at most MaxIterations iterations, and those
\* whose construction fails
BcsInit ==
    /\ bcs_lengths \in DatasetLengths
    /\ bcs_batch_size \in 1..MaxBatchSize
    /\ IF InitDividesByZero(bcs_lengths, bcs_batch_size) THEN TRUE
       ELSE iterations(bcs_lengths, bcs_batch_size) <= MaxIterations
    /\ bcs_pc = "new"
    /\ BcsFresh

BcsNext == SamplerConstruct \/ SamplerIter \/ SamplerNextBatch

ToolsIdle == VecIdle /\ AsgIdle /\ BvIdle /\ BcsIdle

-----------------------------------------------------------------------------
(***************************************************************************)
(* Specifications                                                          *)
(***************************************************************************)

\* the factory applied to every config
InitFactory == FactoryInit /\ PolicyIdle /\ EnvIdle /\ StepIdle /\ DriverIdle /\ ToolsIdle
SpecFactory == InitFactory /\ [][FactoryNext]_vars

\* one policy instance of any class driven through rollouts
InitPolicy == PolicyInit /\ FactoryIdle /\ EnvIdle /\ StepIdle /\ DriverIdle /\ ToolsIdle
SpecPolicy == InitPolicy /\ [][PolicyNext]_vars

-----------------------------------------------------------------------------
\* one env over every dataset file, configured, reset and switched between
\* its own pool and the DAgger pool
InitEnv == EnvInit /\ FactoryIdle /\ PolicyIdle /\ StepIdle /\ DriverIdle /\ ToolsIdle
SpecEnv == InitEnv /\ [][EnvNext]_vars

\* one env over every dataset file with short masks, stepped through episodes
InitRollout == RolloutInit /\ FactoryIdle /\ PolicyIdle /\ StepIdle /\ DriverIdle /\ ToolsIdle
SpecRollout == InitRollout /\ [][RolloutNext]_vars

\* one env over one dataset file, asked for success and for relabelling
InitQuery == EnvIdle /\ FactoryIdle /\ PolicyIdle /\ StepIdle /\ DriverIdle /\ ToolsIdle
SpecQuery == InitQuery /\ [][QueryNext]_vars

\* one instance of any class trained and validated on batches
InitStep == StepInit /\ FactoryIdle /\ PolicyIdle /\ EnvIdle /\ DriverIdle /\ ToolsIdle
SpecStep == InitStep /\ [][StepNext]_vars

\* the forward pass against the rank of the distribution
SpecForward == InitStep /\ [][ForwardNext]_vars

\* the temperature of a VAE over the epochs
InitAnneal == AnnealInit /\ FactoryIdle /\ PolicyIdle /\ EnvIdle /\ DriverIdle /\ ToolsIdle
SpecAnneal == InitAnneal /\ [][AnnealNext]_vars

\* one request to a vectorized env of either kind, the workers interleaved
InitVec ==
    /\ VecIdle /\ AsgIdle /\ BvIdle /\ BcsIdle
    /\ FactoryIdle /\ PolicyIdle /\ EnvIdle /\ StepIdle /\ DriverIdle
SpecVec == InitVec /\ [][VecNext]_vars

\* the driver's env loop for every number of envs and every pair of masks
InitAsg ==
    /\ AsgInit /\ VecIdle /\ BvIdle /\ BcsIdle
    /\ FactoryIdle /\ PolicyIdle /\ EnvIdle /\ StepIdle /\ DriverIdle
SpecAsg == InitAsg /\ [][AsgNext]_vars

\* rank 0's best validation loss over the epochs of one run, every config
InitBv ==
    /\ BvInit /\ VecIdle /\ AsgIdle /\ BcsIdle
    /\ FactoryIdle /\ PolicyIdle /\ EnvIdle /\ StepIdle /\ DriverIdle
SpecBv == InitBv /\ [][BvNext]_vars

\* one sampler over every list of dataset lengths and every batch size,
\* iterated once
InitBcs ==
    /\ BcsInit /\ VecIdle /\ AsgIdle /\ BvIdle
    /\ FactoryIdle /\ PolicyIdle /\ EnvIdle /\ StepIdle /\ DriverIdle
SpecBcs == InitBcs /\ [][BcsNext]_vars

\* the ranks of one run, interleaved, over every config
InitDriver == DriverInit /\ FactoryIdle /\ PolicyIdle /\ EnvIdle /\ StepIdle /\ ToolsIdle
SpecDriver == InitDriver /\ [][DriverNext]_vars

\* one process that is the whole run
InitProcess == InitDriver /\ drv_config.world_size = 1
SpecProcess == InitProcess /\ [][DriverNext]_vars

-----------------------------------------------------------------------------
(***************************************************************************)
(* Properties of the factory (checked under SpecFactory)                   *)
(***************************************************************************)

\* the flag as the factory sees it: a missing section counts as disabled
Flag(name) == algo_config[name].present /\ algo_config[name].enabled
ActFlag == algo_config.transformer.present /\ algo_config.transformer.act_enabled

\* the families in the order they are tested; "default" when none is enabled
FamilyOrder == <<"mpinets", "gaussian", "gmm", "vae">>
FirstFamily ==
    IF \E i \in 1..Len(FamilyOrder) : Flag(FamilyOrder[i])
    THEN LET i == CHOOSE j \in 1..Len(FamilyOrder) :
                    /\ Flag(FamilyOrder[j])
                    /\ \A k \in 1..(j - 1) : ~Flag(FamilyOrder[k])
         IN  FamilyOrder[i]
    ELSE "default"

\* the sub-choice inside the gmm and default families
SubChoice ==
    CASE Flag("rnn") -> "rnn"
      [] ~Flag("rnn") /\ ActFlag -> "act"
      [] ~Flag("rnn") /\ ~ActFlag /\ Flag("transformer") -> "transformer"
      [] OTHER -> "plain"

PrecedenceTable ==
    [mpinets |-> [rnn |-> "BC_RNN_MpiNet", act |-> "BC_MpiNet",
                  transformer |-> "BC_MpiNet", plain |-> "BC_MpiNet"],
     gaussian |-> [rnn |-> "NotImplementedError", act |-> "BC_Gaussian",
                   transformer |-> "NotImplementedError", plain |-> "BC_Gaussian"],
     gmm |-> [rnn |-> "BC_RNN_GMM", act |-> "BC_ACT_GMM",
              transformer |-> "BC_Transformer_GMM", plain |-> "BC_GMM"],
     vae |-> [rnn |-> "NotImplementedError", act |-> "BC_VAE",
              transformer |-> "NotImplementedError", plain |-> "BC_VAE"],
     default |-> [rnn |-> "BC_RNN", act |-> "BC_ACT",
                  transformer |-> "BC_Transformer", plain |-> "BC"]]

\* gaussian and vae test rnn, then transformer, and never look at act
SubChoiceNoAct ==
    IF Flag("rnn") THEN "rnn" ELSE IF Flag("transformer") THEN "transformer" ELSE "plain"

Expected ==
    IF FirstFamily \in {"gaussian", "vae"}
    THEN PrecedenceTable[FirstFamily][SubChoiceNoAct]
    ELSE PrecedenceTable[FirstFamily][SubChoice]

ReturnedClass ==
    /\ factory_out.raised = "none"
    /\ factory_out.algo_class \in AlgoClasses
    /\ factory_out.algo_kwargs = {}
FailedNotImplemented ==
    /\ factory_out.raised = "NotImplementedError"
    /\ factory_out.algo_class = "none"

\* C1: the factory result is the one the precedence table gives (families
\* mpinets, gaussian, gmm, vae, default, first enabled wins; sub-choice rnn,
\* act, transformer, plain), and every call ends either with one class and
\* empty kwargs or with NotImplementedError, never both and never neither.
C1_FactoryFollowsPrecedence ==
    factory_pc = "done" =>
        /\ ReturnedClass # FailedNotImplemented
        /\ IF Expected = "NotImplementedError"
           THEN FailedNotImplemented
           ELSE ReturnedClass /\ factory_out.algo_class = Expected

\* C1 witness: gaussian and gmm both enabled, the earlier family won
C1_Witness ==
    /\ factory_pc = "done"
    /\ Flag("gaussian") /\ Flag("gmm") /\ ~Flag("mpinets")
    /\ factory_out.algo_class = "BC_Gaussian"

Unsupported ==
    \/ Flag("gaussian") /\ (Flag("rnn") \/ Flag("transformer"))
    \/ Flag("vae") /\ (Flag("rnn") \/ Flag("transformer"))

\* C2 as stated: gaussian or vae together with rnn or transformer always
\* fails with NotImplementedError, whatever mpinets, gmm and act are.
C2_UnsupportedAlwaysFails ==
    (factory_pc = "done" /\ Unsupported) => FailedNotImplemented

\* C2 as amended: NotImplementedError is raised exactly when mpinets is
\* disabled and either gaussian is enabled with rnn or transformer, or gmm
\* is disabled and vae is enabled with rnn or transformer; an earlier family
\* (mpinets, or gmm ahead of vae) that is enabled wins and returns a class.
C2_UnsupportedFailsUnlessShadowed ==
    factory_pc = "done" =>
        (FailedNotImplemented <=>
            /\ ~Flag("mpinets")
            /\ \/ Flag("gaussian") /\ (Flag("rnn") \/ Flag("transformer"))
               \/ /\ ~Flag("gmm")
                  /\ Flag("vae") /\ (Flag("rnn") \/ Flag("transformer")))

\* C2 witness: vae with transformer, nothing ahead of it, was refused
C2_Witness ==
    /\ factory_pc = "done"
    /\ Flag("vae") /\ Flag("transformer") /\ ~Flag("rnn")
    /\ ~Flag("mpinets") /\ ~Flag("gaussian") /\ ~Flag("gmm")
    /\ FailedNotImplemented

OptionalSections == {"gaussian", "gmm", "vae", "transformer", "mpinets"}

\* the same config with every absent optional section present, flags false
WithAllSections(c) ==
    [name \in DOMAIN c |->
        IF name \in OptionalSections THEN [c[name] EXCEPT !.present = TRUE] ELSE c[name]]

\* C3: whatever optional sections are absent, the call raises no lookup
\* error and gives the result of the config that has them, all flags false.
C3_AbsentSectionIsDisabled ==
    factory_pc = "done" =>
        /\ factory_out.raised # "AttributeError"
        /\ factory_out = algo_config_to_class(WithAllSections(algo_config))

\* C3 witness: three sections absent and a class came back
C3_Witness ==
    /\ factory_pc = "done"
    /\ ~algo_config.gaussian.present
    /\ ~algo_config.transformer.present
    /\ ~algo_config.mpinets.present
    /\ Flag("gmm")
    /\ factory_out.algo_class = "BC_GMM"

-----------------------------------------------------------------------------
(***************************************************************************)
(* Properties of the rollout state (checked under SpecPolicy)              *)
(***************************************************************************)

Returned == last_call.op = "get_action" /\ last_call.outcome = "action"

\* C4: a recurrent policy reinitializes its hidden state at the calls
\* 1, H+1, 2H+1, ... counted from construction or from the last reset(),
\* and at no other call; so the call after reset() always reinitializes.
C4_ReinitEveryHorizon ==
    pol_class \in RecurrentClasses =>
        /\ \A k \in 1..Len(reinit_log) :
              reinit_log[k] <=> ((k - 1) % rnn_horizon = 0)
        /\ Len(reinit_log) > 0 =>
              rnn_hidden_state = ((Len(reinit_log) - 1) % rnn_horizon) + 1

\* C4 witness: call 2H+1 without a reset, H > 1, reinitialized
C4_Witness ==
    /\ pol_class \in RecurrentClasses
    /\ rnn_horizon > 1
    /\ Len(reinit_log) = 2 * rnn_horizon + 1
    /\ reinit_log[2 * rnn_horizon + 1]
    /\ ~reinit_log[2 * rnn_horizon]

\* C5: BC_ACT fills its cache by one burst of inference_num_open_loop_steps
\* forward passes only when a call finds it empty and returns the first
\* prediction; any other call returns the head of the cache without a
\* forward pass; the cache holds the rest of the last burst in order, and
\* never more than inference_num_open_loop_steps - 1 actions after a call.
C5_CacheDrainsThenRefills ==
    pol_class = "BC_ACT" =>
        /\ Len(inference_action_cache) \in 0..(inference_num_open_loop_steps - 1)
        /\ net_forwards % inference_num_open_loop_steps = 0
        /\ inference_action_cache =
              Burst(net_forwards - Len(inference_action_cache) + 1, net_forwards)
        /\ Returned =>
              IF last_call.cache_before = <<>>
              THEN /\ last_call.forwards = inference_num_open_loop_steps
                   /\ last_call.action = net_forwards - inference_num_open_loop_steps + 1
                   /\ Len(inference_action_cache) = inference_num_open_loop_steps - 1
              ELSE /\ last_call.forwards = 0
                   /\ last_call.action = Head(last_call.cache_before)
                   /\ inference_action_cache = Tail(last_call.cache_before)

\* C5 witness: the cache of the first burst was drained to its last action
\* and the next call ran the second burst
C5_Witness ==
    /\ pol_class = "BC_ACT"
    /\ Returned
    /\ last_call.cache_before = <<>>
    /\ net_forwards = 2 * inference_num_open_loop_steps
    /\ last_call.action = inference_num_open_loop_steps + 1

StatefulClasses == {"BC_RNN", "BC_RNN_MpiNet", "BC_RNN_GMM", "BC_ACT"}

\* C6: after reset() a stateful policy has no hidden state, a zero step
\* counter and an empty action cache, so no action returned after a reset
\* was computed before it.
C6_ResetClearsRolloutState ==
    pol_class \in StatefulClasses =>
        /\ last_call.op = "reset" =>
              /\ rnn_hidden_state = NoState
              /\ rnn_counter = 0
              /\ inference_action_cache = <<>>
        /\ Returned => last_call.action > reset_mark

\* C16: BC_ACT_GMM keeps an action cache: a call that finds it empty runs
\* a burst of inference_num_open_loop_steps forward passes and leaves the
\* rest of the burst cached, a call that finds it non-empty runs none.
C16_ActGmmFillsAndDrainsCache ==
    (pol_class = "BC_ACT_GMM" /\ Returned) =>
        IF last_call.cache_before = <<>>
        THEN /\ last_call.forwards = inference_num_open_loop_steps
             /\ Len(inference_action_cache) = inference_num_open_loop_steps - 1
        ELSE last_call.forwards = 0

ChunkingClasses == {"BC_ACT", "BC_ACT_GMM"}

\* C17: every get_action of an action-chunking class with a batch size
\* other than 1 fails with an assertion and returns no action, whether the
\* cache is empty or not.
C17_BatchSizeOneAsserted ==
    (pol_class \in ChunkingClasses /\ last_call.op = "get_action" /\ last_call.bs # 1) =>
        /\ last_call.outcome = "AssertionError"
        /\ last_call.action = NoAction

\* C7: get_action in training mode fails its assertion before any forward
\* pass, for every class.
C7_TrainingModeAsserts ==
    (last_call.op = "get_action" /\ last_call.training) =>
        /\ last_call.outcome = "AssertionError"
        /\ last_call.forwards = 0
        /\ last_call.action = NoAction

-----------------------------------------------------------------------------
(***************************************************************************)
(* Properties of the environment (checked under SpecEnv)                   *)
(***************************************************************************)

PoolSize == Len(env_demos.val)
Visited == {env_visits[j].ep : j \in 1..Len(env_visits)}
Pool == {env_demos.val[i] : i \in 1..PoolSize}

\* C8: while the pool of N episodes stays as assigned, the reset made at
\* reset count k loads pool index k mod N, the count goes up by one per
\* reset (from 0 on an env that never switched pools), any N consecutive
\* resets load N different episodes, the reset N later loads the same
\* episode again, and after N resets every episode of the pool was loaded.
C8_ResetsCycleThroughPool ==
    (~env_demos.none /\ env_visits # <<>>) =>
        /\ \A j \in 1..Len(env_visits) :
              /\ env_visits[j].k = env_visits[1].k + (j - 1)
              /\ env_visits[j].idx = env_visits[j].k % PoolSize
              /\ env_visits[j].ep = env_demos.val[env_visits[j].idx + 1]
              /\ (j + PoolSize <= Len(env_visits)) =>
                    env_visits[j + PoolSize].ep = env_visits[j].ep
              /\ \A i \in 1..Len(env_visits) :
                    (i < j /\ j - i < PoolSize) => env_visits[i].ep # env_visits[j].ep
        /\ ~env_saved.set => env_visits[1].k = 0
        /\ Len(env_visits) >= PoolSize => Visited = Pool
        /\ env_ep = env_visits[Len(env_visits)].ep
        /\ env_num_resets = env_visits[Len(env_visits)].k + 1

\* C8 witness: a pool of three, four resets, the fourth back at the first
C8_Witness ==
    /\ ~env_demos.none
    /\ PoolSize = 3
    /\ Len(env_visits) = PoolSize + 1
    /\ env_visits[1].k = 0
    /\ env_last.op = "reset"
    /\ env_ep = env_demos.val[1]

RECURSIVE SumOf(_)
SumOf(errs) == IF errs = <<>> THEN 0 ELSE Head(errs) + SumOf(Tail(errs))
RECURSIVE SumOfSquares(_)
SumOfSquares(errs) ==
    IF errs = <<>> THEN 0 ELSE Head(errs) * Head(errs) + SumOfSquares(Tail(errs))

\* C20: the pool an env cycles through is in increasing order of the
\* integer episode id, in every configuration: with or without sharding by
\* environment index, and in DAgger sampling.
C20_PoolInNumericOrder ==
    ~env_demos.none =>
        \A i, j \in 1..PoolSize :
            i < j => EpisodeId(env_demos.val[i]) < EpisodeId(env_demos.val[j])

-----------------------------------------------------------------------------
(***************************************************************************)
(* Properties of step (checked under SpecRollout)                          *)
(***************************************************************************)

StepReturned == env_last.op = "step" /\ env_last.outcome = "ok"

\* the keys of every info dict: both splits of every native key and of the
\* two action errors, the native keys themselves, and ep
StandardKeys ==
    {SplitKey(split, k) : split \in SplitNames, k \in NativeKeys \cup ErrKeys}
        \cup {BareKey(k) : k \in NativeKeys} \cup {BareKey("ep")}

\* C13: the info returned by step of an env whose split is train or valid
\* holds train/<k> and valid/<k> for every native key k and for action_err
\* and action_mse, every entry of the inactive split is None, and the key
\* set is the same for either split and for an env without a pool.
C13_InfoKeysSameForEverySplit ==
    StepReturned =>
        /\ env_split \in SplitNames =>
              \A k \in NativeKeys \cup ErrKeys, split \in SplitNames :
                  /\ SplitKey(split, k) \in DOMAIN env_ret.info
                  /\ split # env_split => env_ret.info[SplitKey(split, k)] = None
        /\ (env_split \in SplitNames \/ env_demos.none) =>
              DOMAIN env_ret.info = StandardKeys

\* C13 witness: a step of a valid env replaying a demonstration, its own
\* action error reported and the train one None
C13_Witness ==
    /\ StepReturned
    /\ env_split = "valid"
    /\ ~env_demos.none
    /\ env_ret.info[SplitKey("train", "action_err")] = None
    /\ env_ret.info[SplitKey("valid", "action_err")] # None
    /\ env_ret.info[SplitKey("train", "success")] = None

Replaying == ~env_demos.none /\ ~env_plan.none /\ ~env_current_step.none

\* C22: while a demonstration is replayed, step n reports the sum of the
\* errors of steps 1..n over n as long as n is at most the plan length L;
\* later steps add nothing and report the sum of the L plan steps over L;
\* a reset that loads a demonstration zeroes both accumulators.
C22_RunningMeanThenConstant ==
    /\ Replaying =>
          /\ env_total_action_err = SumOf(env_errs)
          /\ env_total_action_mse = SumOfSquares(env_errs)
          /\ Len(env_errs) = IF env_current_step.val <= env_plan.val
                             THEN env_current_step.val ELSE env_plan.val
    /\ (StepReturned /\ ~env_demos.none) =>
          LET n == env_current_step.val
              L == env_plan.val
              m == IF n <= L THEN n ELSE L
          IN  /\ env_ret.info[SplitKey(env_split, "action_err")] =
                    Some(Ratio(SumOf(SubSeq(env_errs, 1, m)), m))
              /\ env_ret.info[SplitKey(env_split, "action_mse")] =
                    Some(Ratio(SumOfSquares(SubSeq(env_errs, 1, m)), m))
    /\ (env_last.op = "reset" /\ env_last.outcome = "demo") =>
          env_total_action_err = 0 /\ env_total_action_mse = 0

\* C22 witness: a plan of two actions, both missed by 1, and a third step
C22_Witness ==
    /\ StepReturned
    /\ ~env_demos.none
    /\ env_plan = Some(2)
    /\ env_current_step = Some(3)
    /\ env_errs = <<1, 1>>
    /\ env_ret.info[SplitKey(env_split, "action_err")] = Some(Ratio(2, 2))

-----------------------------------------------------------------------------
(***************************************************************************)
(* Properties of is_success and relabel_traj_with_mp (under SpecQuery)     *)
(***************************************************************************)

SuccessReturned == env_last.op = "is_success"

\* C14 as stated: with more than one env the dict is keyed by train and
\* valid only (active split the success value, inactive None) and has no
\* 'task' key; with one env its only key is 'task'.
C14_NoTaskKeyWithManyEnvs ==
    SuccessReturned =>
        IF env_num_envs > 1
        THEN /\ DOMAIN env_ret.dict = SplitNames
             /\ \A split \in SplitNames :
                   env_ret.dict[split] =
                      IF split = env_split THEN Some(env_ret.success) ELSE None
        ELSE DOMAIN env_ret.dict = {"task"}

\* C14 as the code has it: with more than one env the dict has the keys
\* train, valid and task; the active split holds the success value, the
\* inactive split None, and task None for an env whose split is train or
\* valid; with one env its only key is 'task', holding the success value.
C14_TaskKeyAlwaysPresent ==
    SuccessReturned =>
        IF env_num_envs > 1
        THEN /\ DOMAIN env_ret.dict = SplitNames \cup {"task"}
             /\ \A split \in SplitNames :
                   env_ret.dict[split] =
                      IF split = env_split THEN Some(env_ret.success) ELSE None
             /\ env_split \in SplitNames => env_ret.dict["task"] = None
        ELSE /\ DOMAIN env_ret.dict = {"task"}
             /\ env_ret.dict["task"] = Some(env_ret.success)

\* C14 witness: a train env among two, asked after a success
C14_Witness ==
    /\ SuccessReturned
    /\ env_num_envs = 2
    /\ env_split = "train"
    /\ env_ret.success = 1
    /\ env_ret.dict["train"] = Some(1)
    /\ env_ret.dict["valid"] = None

RelabelReturned == env_last.op = "relabel_traj_with_mp"

\* the steps that end the loop: a failed replanning ends it before the
\* step, a collision state after it
Stops(traj) ==
    {i \in 0..(Len(traj) - 1) : traj[i + 1].replan # "ok"}
        \cup {i + 1 : i \in {j \in 0..(Len(traj) - 1) : traj[j + 1].collision}}
        \cup {Len(traj)}
KeptSteps(traj) == CHOOSE m \in Stops(traj) : \A other \in Stops(traj) : m <= other

\* C15: the result holds the replanned actions of exactly the steps
\* 0..m-1, m the smallest of the first failing step, one past the first
\* collision step and the trajectory length; obs and num_samples have
\* length m; with m = 0, or env_idx not below the number of trajectories,
\* the result is the empty dict.
C15_RelabelKeepsPrefix ==
    RelabelReturned =>
        LET m == KeptSteps(env_ret.traj)
        IN  IF env_ret.env_idx >= env_ret.num_trajs \/ m = 0
            THEN env_ret.out = EmptyDict
            ELSE /\ env_ret.out # EmptyDict
                 /\ env_ret.out.actions = Range(m)
                 /\ Len(env_ret.out.obs) = m
                 /\ env_ret.out.num_samples = m

\* C15 witness: the first step replans and is kept, the second fails
C15_Witness ==
    /\ RelabelReturned
    /\ env_ret.env_idx < env_ret.num_trajs
    /\ Len(env_ret.traj) = 2
    /\ env_ret.traj[1] = [replan |-> "ok", collision |-> FALSE]
    /\ env_ret.traj[2].replan = "raise"
    /\ env_ret.out # EmptyDict
    /\ env_ret.out.num_samples = 1

-----------------------------------------------------------------------------
(***************************************************************************)
(* Properties of the training step (checked under SpecStep)                *)
(***************************************************************************)

\* a train_on_batch call that returned its info
InfoReturned(info) == info.called /\ info.outcome = "returned"

\* validate=true: no _train_step, no gradient norms, no parameter changed
ValidateIsPure ==
    (InfoReturned(ts_info) /\ ts_info.validate) =>
        /\ ts_train_steps = ts_info.steps_before
        /\ ts_params = ts_info.params_before
        /\ ts_info.keys = {"predictions", "losses"}

\* two validate=true calls in a row on the same batch and epoch
ValidatedTwice ==
    /\ InfoReturned(ts_info) /\ ts_info.validate
    /\ InfoReturned(ts_prev) /\ ts_prev.validate
    /\ ts_info.batch = ts_prev.batch
    /\ ts_info.epoch = ts_prev.epoch

\* validate=false: _train_step once, on the losses just computed
TrainStepsOnce ==
    (InfoReturned(ts_info) /\ ~ts_info.validate) =>
        /\ ts_train_steps = ts_info.steps_before + 1
        /\ ts_info.backprop_loss = ts_info.losses.action_loss
        /\ ts_info.keys = {"predictions", "losses", "policy_grad_norms"}

\* C9: a validate=true call takes no optimizer step, returns predictions
\* and losses without gradient norms and changes no parameter; two such
\* calls in a row on the same batch and epoch return the same losses,
\* whatever the class; a validate=false call takes the step exactly once,
\* on the losses it computed, and adds the gradient norms.
C9_ValidateRepeatsAndIsPure ==
    /\ ValidateIsPure
    /\ ValidatedTwice => ts_info.losses = ts_prev.losses
    /\ TrainStepsOnce

-----------------------------------------------------------------------------
(***************************************************************************)
(* Properties of the driver (SpecDriver; C12 and C19 under SpecProcess)    *)
(***************************************************************************)

\* C10: a rank other than 0 never reaches a checkpoint save, runs no
\* rollout and writes nothing to the data logger; it only runs the epochs
\* and the all-reduce calls, and does so in every epoch up to the last.
C10_OnlyRankZeroSavesAndLogs ==
    \A r \in Ranks \ {0} :
        /\ drv_save_reached[r] = 0
        /\ drv_saves[r] = 0
        /\ drv_rollouts[r] = 0
        /\ drv_records[r] = 0
        /\ drv_error[r] = "none"
        /\ drv_pc[r] = "done" => drv_epochs_run[r] = drv_config.num_epochs

\* a rank waits in an all-reduce that a rank which has left train() never
\* entered: the collective can never complete
BlockedForever(r) ==
    /\ drv_pc[r] \in {"reduce_train", "reduce_valid"}
    /\ \E q \in Ranks :
          /\ drv_pc[q] \in {"failed", "done"}
          /\ drv_all_reduce[q] < drv_all_reduce[r]

\* all-reduce calls of one rank over the whole run: one for the training
\* metric and, with validation on, one for the validation metric, per epoch
AllReducePerRun ==
    IF drv_config.ddp
    THEN drv_config.num_epochs * (IF drv_config.validate THEN 2 ELSE 1)
    ELSE 0

\* C11: under data-parallel training every collective is entered by all
\* ranks, so no rank waits forever in an all-reduce, no rank leaves train()
\* early, and a rank that is done has run every epoch and made the same
\* number of all-reduce calls as every other rank.
C11_CollectivesMatchedEveryEpoch ==
    \A r \in Ranks :
        /\ ~BlockedForever(r)
        /\ drv_pc[r] # "failed"
        /\ drv_pc[r] = "done" =>
              /\ drv_epochs_run[r] = drv_config.num_epochs
              /\ drv_all_reduce[r] = AllReducePerRun

\* the epoch whose loop body rank 0 has just ended
EpochEnded == drv_should_save[0].ended
EndedEpoch == drv_epoch[0] - 1

\* the loop body of an epoch was left by the TypeError of "epoch % None"
\* (train.py:519), after the training and the checks of that epoch
EpochBroken == drv_pc[0] = "failed" /\ drv_error[0] = "TypeError"

\* C12: once rank 0 is through with an epoch, model_latest.pth has been
\* overwritten in it, and the model_epoch_<n> checkpoint has been written
\* in it exactly when saving is enabled and a condition other than the
\* elapsed-time one fired (every-N-epochs, epoch list, best validation
\* loss, best rollout return or success rate); when only the elapsed-time
\* condition fired, only the latest file is written.
C12_NamedCheckpointUnlessOnlyTime ==
    (EpochEnded \/ EpochBroken) =>
        /\ drv_should_save[0].latest >= 1
        /\ drv_should_save[0].ckpt.written <=>
              (drv_config.save_enabled /\ drv_should_save[0].fired \ {"time"} # {})

\* what the code does in an epoch whose loop body ends: model_latest.pth is
\* written, a second time when the epoch is a multiple of
\* save.every_n_epochs, and the model_epoch_<n> checkpoint, named after the
\* epoch, is written exactly when saving is enabled and any save condition
\* fired, the elapsed-time condition alone included
NamedCheckpointOnAnyCondition ==
    EpochEnded =>
        /\ drv_should_save[0].latest >= 1
        /\ drv_should_save[0].latest = 2 <=> EndedEpoch % drv_config.every_n_epochs = 0
        /\ drv_should_save[0].ckpt.written <=> drv_should_save[0].fired # {}
        /\ drv_should_save[0].fired # {} => drv_config.save_enabled
        /\ drv_should_save[0].ckpt.epoch = EndedEpoch
        /\ drv_should_save[0].ckpt.best_validation <=> "valid" \in drv_should_save[0].fired

\* and with save.every_n_epochs None: every epoch that is trained breaks
\* after the first save of model_latest.pth, whatever conditions fired
NoneBreaksEpoch ==
    /\ drv_config.every_n_epochs = NotSet => ~EpochEnded
    /\ EpochBroken =>
          /\ drv_config.every_n_epochs = NotSet
          /\ drv_should_save[0].latest = 1
          /\ ~drv_should_save[0].ckpt.written

\* only the elapsed-time condition fired and the checkpoint of the epoch
\* was written next to the latest file
TimeOnlyCheckpointWritten ==
    /\ EpochEnded
    /\ drv_should_save[0].fired = {"time"}
    /\ drv_should_save[0].ckpt.written
    /\ drv_should_save[0].latest = 1

\* a new best validation loss asked for a checkpoint with saving enabled
\* and the epoch broke before the checkpoint was written
BestValidationCheckpointLost ==
    /\ EpochBroken
    /\ drv_config.save_enabled
    /\ "valid" \in drv_should_save[0].fired
    /\ drv_should_save[0].should_save_ckpt
    /\ ~drv_should_save[0].ckpt.written

\* C18: once the SIGUSR1 handler has run on a rank, rank 0 has saved
\* model_latest.pth tagged with the epoch in progress (the epoch about to
\* be trained, or the one trained last), any other rank has saved nothing,
\* the process has exited, and no training epoch has run since.
C18_SignalSavesOnRankZeroAndExits ==
    \A r \in Ranks :
        drv_handler[r].ran =>
            /\ drv_pc[r] = "exited"
            /\ drv_res_str[r] = NoStatus
            /\ drv_handler[r].saved <=> (r = 0)
            /\ drv_handler[r].epoch =
                  IF drv_handler[r].at = "train" THEN drv_handler[r].epochs_run + 1
                  ELSE drv_handler[r].epochs_run
            /\ drv_epochs_run[r] = drv_handler[r].epochs_run
            /\ drv_epoch[r] \in {drv_handler[r].epoch, drv_handler[r].epoch + 1}

MainReturned(r) == drv_res_str[r] # NoStatus

\* C19: when main returns, an Exception raised inside train was caught and
\* the status starts with 'run failed with error' and carries the error;
\* the status is 'finished run successfully!' exactly when train returned
\* without raising.
C19_StatusTellsWhetherTrainRaised ==
    \A r \in Ranks :
        /\ MainReturned(r) =>
              /\ drv_pc[r] \in {"done", "failed"}
              /\ (drv_res_str[r].status = "finished run successfully!")
                    <=> (drv_pc[r] = "done" /\ drv_error[r] = "none")
              /\ drv_pc[r] = "failed" =>
                    /\ drv_res_str[r].status = "run failed with error"
                    /\ drv_res_str[r].error = drv_error[r]
                    /\ drv_error[r] # "none"

\* C19 witness: the one process of a run failed inside train with the
\* TypeError of 'epoch % None' and main reported it
C19_Witness ==
    /\ drv_config.world_size = 1
    /\ drv_pc[0] = "failed" /\ drv_error[0] = "TypeError"
    /\ MainReturned(0) /\ drv_res_str[0].status = "run failed with error"
    /\ drv_res_str[0].error = "TypeError"

-----------------------------------------------------------------------------
(***************************************************************************)
(* Properties of env_method_pass_idx (checked under SpecVec)               *)
(***************************************************************************)

Occurrences(i) == Cardinality({k \in 1..Len(vec_indices) : vec_indices[k] = i})

\* C21: for either wrapper every call delivered to env i carries
\* env_idx = i, and when the request is over each target has received one
\* call per occurrence in indices and the results are in the order of the
\* requested indices.
C21_EachTargetGetsItsOwnIndex ==
    /\ \A i \in VecEnvs : \A k \in 1..Len(vec_calls[i]) : vec_calls[i][k] = i
    /\ vec_pc = "done" =>
          /\ \A i \in VecEnvs : Len(vec_calls[i]) = Occurrences(i)
          /\ vec_out = [k \in 1..Len(vec_indices) |->
                            MethodResult(vec_indices[k], vec_indices[k])]

\* C21 witness: the subprocess wrapper asked for env 2, then env 0
C21_Witness ==
    /\ vec_kind = "subproc"
    /\ vec_pc = "done"
    /\ vec_indices = <<2, 0>>
    /\ vec_out = <<MethodResult(2, 2), MethodResult(0, 0)>>

-----------------------------------------------------------------------------
(***************************************************************************)
(* Properties of the open-loop observation (under SpecPolicy)              *)
(***************************************************************************)

\* a get_action call of a recurrent class that reached the network
RecurrentCall ==
    /\ pol_class \in RecurrentClasses
    /\ net_forwards' = net_forwards + 1

\* C23: in open-loop mode every get_action call of a recurrent policy hands
\* the network the observation of the most recent call that reinitialized
\* the hidden state: a reinitializing call remembers its own observation and
\* uses it, any other call uses the remembered one and leaves it alone, and
\* no other step changes the remembered observation.  With open-loop off the
\* network gets the observation of the current call.
C23_OpenLoopUsesObservationOfLastReinit ==
    [][IF RecurrentCall
       THEN IF rnn_is_open_loop
            THEN /\ open_loop_obs' = IF last_call'.reinit THEN last_call'.obs
                                     ELSE open_loop_obs
                 /\ last_call'.obs_used = open_loop_obs'
            ELSE /\ last_call'.obs_used = last_call'.obs
                 /\ open_loop_obs' = open_loop_obs
       ELSE open_loop_obs' = open_loop_obs]_vars

\* an open-loop call that did not reinitialize and was given another
\* observation than the remembered one
C23_Witness ==
    /\ pol_class \in RecurrentClasses
    /\ rnn_is_open_loop
    /\ last_call.op = "get_action"
    /\ last_call.outcome = "action"
    /\ ~last_call.reinit
    /\ last_call.obs # open_loop_obs
    /\ last_call.obs_used = open_loop_obs

-----------------------------------------------------------------------------
(***************************************************************************)
(* Properties of the forward training pass (under SpecStep)                *)
(***************************************************************************)

\* the batch rank each GMM class is meant to accept
FlatGmmClasses == {"BC_GMM"}
SequenceGmmClasses == {"BC_RNN_GMM", "BC_Transformer_GMM", "BC_ACT_GMM"}

\* the call ended in the assert: nothing was predicted, no loss computed,
\* no optimizer step taken
RaisedBeforeLosses ==
    /\ ts_info.outcome = "AssertionError"
    /\ ts_info.keys = {}
    /\ ts_info.losses.keys = {}
    /\ ts_train_steps = ts_info.steps_before
    /\ ts_params = ts_info.params_before

\* C24: a train_on_batch call on a flat GMM policy (BC_GMM) raises an
\* assertion before any log-probability or loss is computed unless the
\* distribution's batch rank is 1, and on a sequence GMM policy
\* (BC_RNN_GMM, BC_Transformer_GMM, BC_ACT_GMM) unless the rank is 2; with
\* the expected rank the call returns its log-probability loss.
C24_GmmBatchRankAsserted ==
    (ts_info.called /\ ts_class \in FlatGmmClasses \cup SequenceGmmClasses) =>
        LET expected == IF ts_class \in FlatGmmClasses THEN 1 ELSE 2
        IN  IF ts_info.rank # expected
            THEN RaisedBeforeLosses
            ELSE InfoReturned(ts_info) /\ "log_probs" \in ts_info.losses.keys

\* a flat GMM policy handed a rank-2 distribution: the call raised
C24_Witness ==
    /\ ts_class = "BC_GMM"
    /\ ts_info.called
    /\ ts_info.rank = 2
    /\ RaisedBeforeLosses
    /\ ts_prev.called /\ ts_prev.rank = 1 /\ InfoReturned(ts_prev)

-----------------------------------------------------------------------------
(***************************************************************************)
(* Properties of the VAE temperature (under SpecAnneal)                    *)
(***************************************************************************)

\* init_temp - e * anneal_step, clamped at min_temp
ClampedAnneal(e) ==
    LET linear == ts_vae_prior.categorical_init_temp
                    - e * ts_vae_prior.categorical_temp_anneal_step
    IN  IF linear < ts_vae_prior.categorical_min_temp
        THEN ts_vae_prior.categorical_min_temp
        ELSE linear

\* C25: every train_on_batch call of a BC_VAE with a categorical prior sets
\* the temperature to max(init_temp - e * anneal_step, min_temp) for its
\* epoch e, whatever came before, and the forward pass of the call already
\* runs at that temperature; the temperature is never below min_temp and,
\* for a non-negative anneal step, not above that of an earlier-or-equal
\* epoch's call.  Without a categorical prior no call changes the temperature.
C25_TemperatureAnnealedToFloor ==
    [][ts_calls' = ts_calls + 1 =>
        IF ts_class = "BC_VAE" /\ ts_vae_prior.use_categorical
        THEN /\ ts_temperature' = ClampedAnneal(ts_info'.epoch)
             /\ ts_info'.losses.action_loss[3] = ts_temperature'
             /\ ts_temperature' >= ts_vae_prior.categorical_min_temp
             /\ (/\ ts_info.called
                 /\ ts_info.epoch <= ts_info'.epoch
                 /\ ts_vae_prior.categorical_temp_anneal_step >= 0)
                    => ts_temperature' <= ts_temperature
        ELSE ts_temperature' = ts_temperature]_vars

\* a categorical VAE trained in epoch 0 and then in epoch 2, where the
\* linear value has fallen below the floor
C25_Witness ==
    /\ ts_class = "BC_VAE"
    /\ ts_vae_prior = [use_categorical |-> TRUE, categorical_init_temp |-> 2,
                       categorical_temp_anneal_step |-> 1, categorical_min_temp |-> 1]
    /\ ts_prev.called /\ ts_prev.epoch = 0
    /\ ts_prev.losses.action_loss[3] = 2
    /\ ts_info.called /\ ts_info.epoch = 2
    /\ ts_temperature = 1

-----------------------------------------------------------------------------
(***************************************************************************)
(* Properties of the selected class (under SpecFactory)                    *)
(***************************************************************************)

\* C26: whenever algo_config_to_class returns a class, the flag assertions
\* that class makes when it builds its networks hold for the same config.
C26_SelectedClassPassesItsAsserts ==
    (factory_pc = "done" /\ factory_out.raised = "none") =>
        ConstructionPasses(factory_out.algo_class, algo_config)

\* the selected classes other than the two action-chunking ones do pass
SelectedNonActClassPasses ==
    (/\ factory_pc = "done"
     /\ factory_out.raised = "none"
     /\ factory_out.algo_class \notin {"BC_ACT", "BC_ACT_GMM"}) =>
        ConstructionPasses(factory_out.algo_class, algo_config)

-----------------------------------------------------------------------------
(***************************************************************************)
(* Properties of the DAgger pair (under SpecEnv)                           *)
(***************************************************************************)

\* set_to_env_original has just closed a pair that set_to_dagger_sampling
\* opened, with nothing but resets in between
PairClosed ==
    /\ env_last.op = "set_to_env_original"
    /\ env_last.outcome = "ok"
    /\ env_pair.phase = "restored"

\* C27: set_to_dagger_sampling, k resets that load a demonstration, then
\* set_to_env_original leave demos, split and num_resets as they were
\* before the pair and dagger_resets k higher; while the pair is open the
\* DAgger count itself is untouched and num_resets runs from it.
C27_DaggerPairRestoresAndAdvances ==
    /\ PairClosed =>
          /\ env_demos = env_pair.demos
          /\ env_split = env_pair.split
          /\ env_num_resets = env_pair.num_resets
          /\ env_dagger_resets = env_pair.dagger_resets
    /\ env_pair.phase = "open" =>
          /\ env_split = "train"
          /\ env_num_resets = env_pair.dagger_resets

\* a pair with two DAgger resets, opened after one reset of a valid pool
C27_Witness ==
    /\ PairClosed
    /\ env_split = "valid"
    /\ ~env_demos.none
    /\ env_num_resets = 1
    /\ env_dagger_resets = 2

-----------------------------------------------------------------------------
(***************************************************************************)
(* Properties of the shards of the parallel envs (under SpecAsg)           *)
(***************************************************************************)

\* every env of range(num_envs) has been configured
AllAssigned == asg_env_idx = asg_num_envs

\* the envs that were given position i of the mask of split
Holders(split, i) ==
    {e \in 1..Len(asg_pools) : asg_pools[e].split = split /\ i \in asg_pools[e].demos}

\* C28: for every number of parallel envs greater than 1, once the loop is
\* over every env has a non-empty pool and every episode of the train mask
\* and of the valid mask is in the pool of exactly one env.
C28_ShardsPartitionBothSplits ==
    (AllAssigned /\ asg_num_envs > 1) =>
        /\ \A e \in 1..Len(asg_pools) : asg_pools[e].demos # {}
        /\ \A split \in {"train", "valid"} :
              \A i \in 0..(asg_masks[split] - 1) : Cardinality(Holders(split, i)) = 1

\* no episode is ever in the pools of two envs
ShardsDisjoint ==
    \A split \in {"train", "valid"} :
        \A i \in 0..(asg_masks[split] - 1) : Cardinality(Holders(split, i)) <= 1

\* with exactly 20 envs and masks of at least 5 and 15 episodes the shards
\* do partition both splits
TwentyEnvsPartition ==
    (/\ AllAssigned
     /\ asg_num_envs = 20
     /\ asg_masks["train"] >= 5
     /\ asg_masks["valid"] >= 15) =>
        /\ \A e \in 1..Len(asg_pools) : asg_pools[e].demos # {}
        /\ \A split \in {"train", "valid"} :
              \A i \in 0..(asg_masks[split] - 1) : Cardinality(Holders(split, i)) = 1

-----------------------------------------------------------------------------
(***************************************************************************)
(* Properties of the best validation loss (under SpecBv)                   *)
(***************************************************************************)

\* the smallest of a non-empty sequence of losses
MinOf(losses) ==
    CHOOSE m \in {losses[i] : i \in 1..Len(losses)} :
        \A i \in 1..Len(losses) : m <= losses[i]

\* the epoch just validated reported a Loss no larger than any earlier one
LossIsBestSoFar ==
    /\ bv_decision.validated
    /\ \A i \in 1..Len(bv_losses) : bv_decision.loss.val <= bv_losses[i]

\* C29: on rank 0, after the validation of each epoch best_valid_loss is the
\* minimum of the validation losses so far; the epoch's checkpoint is named
\* a best-validation checkpoint (and requested) exactly when the epoch's
\* Loss is less than or equal to every earlier one and saving and
\* on_best_validation are on; and the reason is 'valid' only when no
\* recurring condition had already set it to 'time'.
C29_BestValidLossIsRunningMinimum ==
    /\ best_valid_loss.none <=> bv_losses = <<>>
    /\ bv_losses # <<>> => best_valid_loss.val = MinOf(bv_losses)
    /\ (~bv_decision.best_validation.none) <=>
          (/\ LossIsBestSoFar
           /\ bv_config.save_enabled
           /\ bv_config.on_best_validation)
    /\ (~bv_decision.best_validation.none) =>
          /\ bv_decision.should_save_ckpt
          /\ bv_decision.ckpt_reason \in {"time", "valid"}
          /\ ~best_valid_loss.none
          /\ bv_decision.best_validation.val = best_valid_loss.val
    /\ bv_decision.ckpt_reason = "valid" => ~bv_decision.best_validation.none

\* the third epoch ties the best loss of the run while a recurring
\* condition fired: best-validation checkpoint, reason still 'time'
C29_Witness ==
    /\ bv_losses = <<1, 2, 1>>
    /\ ~best_valid_loss.none
    /\ best_valid_loss.val = 1
    /\ ~bv_decision.best_validation.none
    /\ bv_decision.best_validation.val = 1
    /\ bv_decision.ckpt_reason = "time"

-----------------------------------------------------------------------------
\* the range of dataset d in the concatenated dataset
OwnRange(d) ==
    dataset_offsets(bcs_lengths, d)..(dataset_offsets(bcs_lengths, d) + bcs_lengths[d] - 1)

\* the batch last yielded has batch_size // num_datasets indices of every
\* dataset
BatchIsBalanced ==
    \A d \in 1..Len(bcs_lengths) :
        Len(bcs_parts[d]) = bcs_batch_size \div Len(bcs_lengths)

\* every index of the batch last yielded lies in the range of its dataset
BatchInOwnRanges ==
    \A d \in 1..Len(bcs_lengths) :
        \A k \in 1..Len(bcs_parts[d]) : bcs_parts[d][k] \in OwnRange(d)

\* C30: for any dataset lengths and a batch size of at least the number of
\* datasets, every batch one iteration of BalancedConcatSampler yields holds
\* exactly batch_size // num_datasets indices of every dataset, each inside
\* the range of its dataset in the concatenated dataset, and the iteration
\* yields as many batches as __len__ returns.
C30_BatchesBalancedAndCounted ==
    (bcs_batch_size >= Len(bcs_lengths)) =>
        /\ bcs_pc = "yielded" => BatchIsBalanced /\ BatchInOwnRanges
        /\ bcs_pc = "exhausted" => bcs_yielded = SamplerLen

\* what the code does keep: the indices of a batch stay in the range of
\* their dataset and are laid out dataset after dataset
IndicesStayInOwnRanges ==
    bcs_pc = "yielded" =>
        /\ BatchInOwnRanges
        /\ bcs_batch = batch_indices(bcs_parts)

\* and when samples_per_dataset divides iterations the batches are full and
\* counted by __len__
BalancedWhenDivisible ==
    (bcs_pc \in {"yielded", "exhausted"}
        /\ bcs_self.iterations % bcs_self.samples_per_dataset = 0) =>
        /\ bcs_pc = "yielded" => BatchIsBalanced
        /\ bcs_pc = "exhausted" => bcs_yielded = SamplerLen

\* the batch that is short: two datasets of three samples, batch size six
ShortBatchYielded ==
    /\ bcs_lengths = <<3, 3>>
    /\ bcs_batch_size = 6
    /\ bcs_pc = "yielded"
    /\ bcs_yielded = 1
    /\ \A d \in 1..2 : Len(bcs_parts[d]) = 2
    /\ SamplerLen = 0

====
